---- MODULE Spec2Model ----
(***************************************************************************)
(* The OpenAI-compatible chat adapter of packages/core: the streamed call  *)
(* (generateContentStream / createStreamGenerator), its line decoder and   *)
(* its thinking-tag state machine, and the HTTP status handling of         *)
(* generateContent and generateContentStream; and the streamed call of the *)
(* SDK-based client of config/models.ts, which wraps one whole response.   *)
(*                                                                         *)
(* Text is a sequence of one-character strings, so that a delimiter can be *)
(* cut anywhere.  The JSON object of one streamed record,                  *)
(*   {"choices":[{"delta":{"content":"X"}}]},                              *)
(* is written  { X }  : the envelope is the pair of braces and X the       *)
(* decoded delta.content.  Anything else fails JSON.parse.                 *)
(***************************************************************************)
EXTENDS Integers, Sequences, FiniteSets, TLC

VARIABLES calls, scen, gen, net

vars == <<calls, scen, gen, net>>

(***************************************************************************)
(* Bounds of the model.                                                    *)
(***************************************************************************)
MaxFrags == 2
MaxRead == 2
MaxPending == 2

(***************************************************************************)
(* String primitives of the runtime of String.prototype.                    *)
(***************************************************************************)
MinOf(S) == CHOOSE i \in S : \A j \in S : i <= j

IndexOf(s, sub) ==
  LET cands == {i \in 1..(Len(s) - Len(sub) + 1) : SubSeq(s, i, i + Len(sub) - 1) = sub}
  IN IF cands = {} THEN 0 ELSE MinOf(cands)

Includes(s, sub) == IndexOf(s, sub) # 0

StartsWith(s, p) == Len(s) >= Len(p) /\ SubSeq(s, 1, Len(p)) = p

RECURSIVE Split(_, _)
Split(s, sep) ==
  LET i == IndexOf(s, sep)
  IN IF i = 0 THEN <<s>>
     ELSE <<SubSeq(s, 1, i - 1)>> \o Split(SubSeq(s, i + Len(sep), Len(s)), sep)

WhiteSpace == {" ", "\t", "\r", "\n"}

IsBlank(s) == \A i \in 1..Len(s) : s[i] \in WhiteSpace

RECURSIVE Concat(_)
Concat(ss) == IF ss = <<>> THEN <<>> ELSE Head(ss) \o Concat(Tail(ss))

(***************************************************************************)
(* Literals of createStreamGenerator.                                      *)
(***************************************************************************)
NL == <<"\n">>
DataPrefix == <<"d", "a", "t", "a", ":", " ">>
DoneToken == <<"[", "D", "O", "N", "E", "]">>
OpenTag == <<"<", "t", "h", "i", "n", "k", "i", "n", "g", ">">>
CloseTag == <<"<", "/", "t", "h", "i", "n", "k", "i", "n", "g", ">">>

(* JSON.parse(data) followed by parsed.choices?.[0]?.delta?.content || ''. *)
JSONParse(data) ==
  IF Len(data) >= 2 /\ data[1] = "{" /\ data[Len(data)] = "}"
  THEN [ok |-> TRUE, content |-> SubSeq(data, 2, Len(data) - 1)]
  ELSE [ok |-> FALSE, content |-> <<>>]

(***************************************************************************)
(* The frame of one streamed call: the locals of createStreamGenerator     *)
(* (buffer, isInThinking, thinkingContent, mainContent, the reader), the   *)
(* lines of the current chunk still to be handled by the for loop, the     *)
(* point the generator is suspended at, and what the consumer has seen.    *)
(*   pc   "fetch"           the call is made, the HTTP response is awaited *)
(*        "suspendedStart"  the generator object exists, body not entered  *)
(*        "awaitRead"       suspended in  await reader.read()              *)
(*        "suspendedYield"  suspended at a yield, value handed over        *)
(*        "completed"       the generator returned or threw                *)
(*        "rejected"        the call's promise rejected (no generator)     *)
(*        "returned"        generateContent resolved with a response       *)
(*   cont  where the body continues when resumed; pending: the next()      *)
(*         requests of the consumer not yet answered.                      *)
(***************************************************************************)
NoError == <<>>

At(where, part) == [at |-> where, part |-> part]

(* reader.releaseLock() in the finally block; the generator is finished    *)
(* and every queued request is answered with done.                         *)
Finally(f) ==
  [f EXCEPT !.pc = "completed", !.reader = "released", !.releases = @ + 1,
            !.pending = 0, !.cont = At("end", <<>>)]

(* A variant without the finally block: the exception just propagates.     *)
ThrowSkipsFinally(f, err) ==
  [f EXCEPT !.pc = "completed", !.pending = 0, !.cont = At("end", <<>>), !.thrown = err]

(* An exception leaving the try block: finally runs, then it propagates.   *)
Throw(f, err) == [Finally(f) EXCEPT !.thrown = err]

(* await reader.read(): the generator waits for the transport.             *)
IssueRead(f) ==
  [f EXCEPT !.pc = "awaitRead", !.outstanding = @ + 1, !.readIssued = TRUE,
            !.cont = At("read", <<>>)]

RECURSIVE Run(_), RunFrom(_), Yield(_, _, _, _)

(* After yield of parts[0] in the <thinking> branch: if (parts[1]) ...     *)
OpenTail(f, part) ==
  [f EXCEPT !.thinkingContent = @ \o part, !.cont = At("lines", <<>>)]

(* After the thinking yield of the </thinking> branch: the buffer is       *)
(* cleared, then parts[1] goes out as main.                                *)
CloseMain(f, part) ==
  IF part # <<>>
  THEN Yield([f EXCEPT !.mainContent = @ \o part], part, "main", At("lines", <<>>))
  ELSE Run([f EXCEPT !.cont = At("lines", <<>>)])

(* if (content) { ... } of one parsed record.                              *)
OnContent(f, content) ==
  IF content = <<>> THEN Run(f)
  ELSE IF f.includeThoughts /\ Includes(content, OpenTag)
  THEN LET parts == Split(content, OpenTag)
           g == [f EXCEPT !.isInThinking = TRUE]
       IN IF parts[1] # <<>>
          THEN Yield([g EXCEPT !.mainContent = @ \o parts[1]], parts[1], "main",
                     At("openTail", parts[2]))
          ELSE Run(OpenTail(g, parts[2]))
  ELSE IF f.includeThoughts /\ Includes(content, CloseTag)
  THEN LET parts == Split(content, CloseTag)
           g == [f EXCEPT !.isInThinking = FALSE, !.thinkingContent = @ \o parts[1]]
       IN IF g.thinkingContent # <<>>
          THEN Yield(g, g.thinkingContent, "thinking", At("closeTail", parts[2]))
          ELSE CloseMain(g, parts[2])
  ELSE IF f.isInThinking
  THEN Yield([f EXCEPT !.thinkingContent = @ \o content], content, "thinking",
             At("lines", <<>>))
  ELSE Yield([f EXCEPT !.mainContent = @ \o content], content, "main",
             At("lines", <<>>))

(* A variant in which a malformed record ends the stream.                  *)
OnParseErrorAborts(f) == Finally(f)

(* catch (e) { console.error(...) }: the record is dropped, the loop goes  *)
(* on with the next line.                                                  *)
OnParseError(f) == Run(f)

(* A variant that treats [DONE] as one more line to skip.                  *)
OnDoneIgnored(f) == Run(f)

(* if (data === '[DONE]') return;                                          *)
OnDone(f) == Finally(f)

(* The body of  for (const line of lines)  for one line.                   *)
ProcessLine(f, line) ==
  IF IsBlank(line) THEN Run(f)
  ELSE IF ~StartsWith(line, DataPrefix) THEN Run(f)
  ELSE LET data == SubSeq(line, Len(DataPrefix) + 1, Len(line))
       IN IF data = DoneToken THEN OnDone(f)
          ELSE LET parsed == JSONParse(data)
               IN IF parsed.ok THEN OnContent(f, parsed.content)
                  ELSE OnParseError(f)

(* const reader = response.body?.getReader(); if (!reader) throw ...       *)
Start(f) ==
  IF f.hasBody
  THEN Run([f EXCEPT !.reader = "locked", !.acquired = @ + 1, !.cont = At("read", <<>>)])
  ELSE [f EXCEPT !.pc = "completed", !.pending = 0, !.cont = At("end", <<>>),
                 !.thrown = <<"No response body reader available">>]

(* singleResponseGenerator of config/models.ts:  yield response;  and the   *)
(* end of its body.                                                        *)
SingleResponseGenerator(f) ==
  Yield(f, <<>>, "response", At("singleEnd", <<>>))

SingleResponseEnd(f) ==
  [f EXCEPT !.pc = "completed", !.pending = 0, !.cont = At("end", <<>>)]

(* The generator body from its continuation point to its next suspension.  *)
(* Run takes the frame as a value (bound once by the set constructor), so  *)
(* that a long run is not re-evaluated at every use of the frame.          *)
RunFrom(f) ==
  CASE f.cont.at = "start" ->
         IF f.op = "singleResponseStream" THEN SingleResponseGenerator(f) ELSE Start(f)
    [] f.cont.at = "singleEnd" -> SingleResponseEnd(f)
    [] f.cont.at = "read" -> IssueRead(f)
    [] f.cont.at = "lines" ->
         IF f.lines = <<>> THEN IssueRead(f)
         ELSE ProcessLine([f EXCEPT !.lines = Tail(@)], Head(f.lines))
    [] f.cont.at = "openTail" -> Run(OpenTail(f, f.cont.part))
    [] f.cont.at = "closeTail" ->
         CloseMain([f EXCEPT !.thinkingContent = <<>>], f.cont.part)
    [] OTHER -> f

Run(f) == CHOOSE r \in {RunFrom(v) : v \in {f}} : TRUE

(* A variant that does not suspend at a yield: the body runs on whether    *)
(* or not the consumer has asked for more.                                 *)
YieldEager(f, text, type, after) ==
  Run([f EXCEPT !.emitted = Append(@, [type |-> type, text |-> text]),
                !.pending = IF @ > 0 THEN @ - 1 ELSE 0, !.cont = after])

(* yield this.createStreamResponse(text, type): the oldest request is      *)
(* answered with the value; the body goes on only if another request is    *)
(* already queued.                                                         *)
Yield(f, text, type, after) ==
  LET g == [f EXCEPT !.emitted = Append(@, [type |-> type, text |-> text]),
                     !.pending = @ - 1, !.cont = after]
  IN IF g.pending > 0 THEN Run(g) ELSE [g EXCEPT !.pc = "suspendedYield"]

(* A variant without the carry-over: the incomplete last line of a read   *)
(* is dropped.                                                             *)
OnChunkDropsPartial(f, value) ==
  LET all == Split(value, NL)
  IN [f EXCEPT !.buffer = <<>>, !.lines = SubSeq(all, 1, Len(all) - 1),
               !.cont = At("lines", <<>>)]

(* buffer += decoder.decode(value); lines = buffer.split('\n');            *)
(* buffer = lines.pop() || ''                                              *)
OnChunk(f, value) ==
  LET all == Split(f.buffer \o value, NL)
  IN [f EXCEPT !.buffer = all[Len(all)], !.lines = SubSeq(all, 1, Len(all) - 1),
               !.cont = At("lines", <<>>)]

(* A variant whose loop ignores done and reads again.                      *)
OnReadDoneReadsOn(f) == [f EXCEPT !.outstanding = 1]

(* if (done) break;  -- the loop is left and finally runs.                 *)
OnReadDone(f) == Finally(f)

(***************************************************************************)
(* The HTTP exchange of generateContent and generateContentStream.         *)
(***************************************************************************)
HttpResponses ==
  { [status |-> 200, statusText |-> "OK", body |-> "stream"],
    [status |-> 404, statusText |-> "Not Found", body |-> "model does not exist"],
    [status |-> 500, statusText |-> "Internal Server Error", body |-> "overloaded"] }

StatusString(n) == CASE n = 200 -> "200" [] n = 404 -> "404" [] n = 500 -> "500"

(* response.ok *)
Ok(r) == r.status \in 200..299

(* new Error(`HTTP ${response.status}: ${response.statusText}`)            *)
HttpError(r) == <<"HTTP ", StatusString(r.status), ": ", r.statusText>>

(***************************************************************************)
(* The whole-response path of generateContent: data.choices[0].message     *)
(* .content is searched for the first thinking pattern that matches.  The  *)
(* characters of the two Chinese delimiter pairs are written by name:      *)
(* "si" "kao" "guo" "cheng" "hui" "da" are one character each, "[[" and    *)
(* "]]" are the lenticular brackets.                                       *)
(***************************************************************************)
ThinkingPatterns ==
  << [open |-> OpenTag, close |-> CloseTag],
     [open |-> <<"*", "*", "si", "kao", "guo", "cheng", "*", "*">>,
      close |-> <<"*", "*", "hui", "da", "*", "*">>],
     [open |-> <<"[[", "si", "kao", "]]">>, close |-> <<"[[", "hui", "da", "]]">>] >>

RECURSIVE TrimStart(_)
TrimStart(s) == IF s # <<>> /\ Head(s) \in WhiteSpace THEN TrimStart(Tail(s)) ELSE s

RECURSIVE TrimEnd(_)
TrimEnd(s) ==
  IF s # <<>> /\ s[Len(s)] \in WhiteSpace THEN TrimEnd(SubSeq(s, 1, Len(s) - 1)) ELSE s

Trim(s) == TrimEnd(TrimStart(s))

(* text.match(/open(.*?)close/s): the leftmost open, then the nearest      *)
(* close behind it; index 0 when there is no match.                        *)
Match(text, pat) ==
  LET i == IndexOf(text, pat.open)
      rest == SubSeq(text, i + Len(pat.open), Len(text))
      j == IF i = 0 THEN 0 ELSE IndexOf(rest, pat.close)
  IN IF i = 0 \/ j = 0
     THEN [index |-> 0, whole |-> <<>>, group |-> <<>>]
     ELSE [index |-> i,
           whole |-> pat.open \o SubSeq(rest, 1, j - 1) \o pat.close,
           group |-> SubSeq(rest, 1, j - 1)]

(* text.replace(whole, ''): the first occurrence is removed.               *)
RemoveFirst(text, whole) ==
  LET i == IndexOf(text, whole)
  IN IF i = 0 THEN text
     ELSE SubSeq(text, 1, i - 1) \o SubSeq(text, i + Len(whole), Len(text))

RECURSIVE ExtractThinking(_, _)
ExtractThinking(text, n) ==
  IF n > Len(ThinkingPatterns) THEN [thinking |-> <<>>, text |-> text]
  ELSE LET m == Match(text, ThinkingPatterns[n])
       IN IF m.index # 0
          THEN [thinking |-> Trim(m.group), text |-> Trim(RemoveFirst(text, m.whole))]
          ELSE ExtractThinking(text, n + 1)

(* The response generateContent resolves with, from the parsed body.       *)
ToResponse(data, includeThoughts) ==
  LET raw == data.content
      ex == IF includeThoughts /\ raw # <<>> THEN ExtractThinking(raw, 1)
            ELSE [thinking |-> <<>>, text |-> raw]
      parts == (IF ex.thinking # <<>> THEN <<[type |-> "thinking", text |-> ex.thinking]>>
                ELSE <<>>)
               \o (IF ex.text # <<>> THEN <<[type |-> "main", text |-> ex.text]>>
                   ELSE <<>>)
  IN [parts |-> IF parts # <<>> THEN parts ELSE <<[type |-> "main", text |-> ex.text]>>,
      finishReason |-> IF data.finish_reason = "stop" THEN "STOP" ELSE "OTHER",
      usage |-> data.usage]

(* A variant that trims the content also when no pattern matches.          *)
ExtractReasoningContentTrimmed(message) ==
  IF message.reasoning_content # <<>>
  THEN [thinking |-> message.reasoning_content, text |-> message.content]
  ELSE LET ex == ExtractThinking(message.content, 1)
       IN [thinking |-> ex.thinking, text |-> Trim(ex.text)]

(* A variant that scans the content for delimiters also when the message   *)
(* carries reasoning_content.                                              *)
ExtractReasoningContentScans(message) ==
  IF message.content = <<>>
  THEN [thinking |-> message.reasoning_content, text |-> message.content]
  ELSE LET ex == ExtractThinking(message.content, 1)
       IN [thinking |-> IF message.reasoning_content # <<>>
                        THEN message.reasoning_content ELSE ex.thinking,
           text |-> ex.text]

(* extractReasoningContent of config/models.ts: reasoning_content wins,    *)
(* otherwise the first thinking pattern that matches the content.          *)
ExtractReasoningContent(message) ==
  IF message.reasoning_content # <<>>
  THEN [thinking |-> message.reasoning_content, text |-> message.content]
  ELSE IF message.content # <<>> THEN ExtractThinking(message.content, 1)
  ELSE [thinking |-> <<>>, text |-> message.content]

(* The response the SDK-based generateContent resolves with for a plain    *)
(* text completion.                                                        *)
ToSdkResponse(data) ==
  LET ex == ExtractReasoningContent(data)
      parts == (IF ex.thinking # <<>> THEN <<[type |-> "thinking", text |-> ex.thinking]>>
                ELSE <<>>)
               \o (IF ex.text # <<>> THEN <<[type |-> "main", text |-> ex.text]>>
                   ELSE <<>>)
  IN [parts |-> IF parts # <<>> THEN parts ELSE <<[type |-> "main", text |-> ex.text]>>,
      finishReason |-> IF data.finish_reason = "stop" THEN "STOP" ELSE "OTHER",
      usage |-> data.usage]

(***************************************************************************)
(* JSON texts of tool-call arguments and tool responses.  A value is a     *)
(* string or an object, an object an ordered list of members (insertion    *)
(* order, as JSON.stringify writes them); texts carry no white space, no   *)
(* escapes and no repeated keys.                                           *)
(***************************************************************************)
Quote == "\""

JStr(s) == [t |-> "string", s |-> s]

JObj(members) == [t |-> "object", members |-> members]

EmptyObject == JObj(<<>>)

RECURSIVE JSONStringify(_), StringifyMembers(_)

StringifyMembers(ms) ==
  IF ms = <<>> THEN <<>>
  ELSE <<Quote>> \o Head(ms).k \o <<Quote, ":">> \o JSONStringify(Head(ms).v)
       \o (IF Len(ms) > 1 THEN <<",">> ELSE <<>>) \o StringifyMembers(Tail(ms))

JSONStringify(v) ==
  IF v.t = "string" THEN <<Quote>> \o v.s \o <<Quote>>
  ELSE <<"{">> \o StringifyMembers(v.members) \o <<"}">>

ParseFail == [ok |-> FALSE, value |-> EmptyObject, rest |-> <<>>]

(* A string literal at the head of s.                                      *)
ParseString(s) ==
  IF s = <<>> \/ Head(s) # Quote THEN ParseFail
  ELSE LET j == IndexOf(Tail(s), <<Quote>>)
       IN IF j = 0 THEN ParseFail
          ELSE [ok |-> TRUE, value |-> JStr(SubSeq(s, 2, j)),
                rest |-> SubSeq(s, j + 2, Len(s))]

RECURSIVE ParseValue(_), ParseMembers(_, _)

(* The members of an object after "{" or ",", up to the closing brace.     *)
ParseMembers(s, acc) ==
  LET key == ParseString(s)
  IN IF ~key.ok \/ key.rest = <<>> \/ Head(key.rest) # ":" THEN ParseFail
     ELSE LET val == ParseValue(Tail(key.rest))
              ms == Append(acc, [k |-> key.value.s, v |-> val.value])
          IN IF ~val.ok \/ val.rest = <<>> THEN ParseFail
             ELSE IF Head(val.rest) = "}"
             THEN [ok |-> TRUE, value |-> JObj(ms), rest |-> Tail(val.rest)]
             ELSE IF Head(val.rest) = "," THEN ParseMembers(Tail(val.rest), ms)
             ELSE ParseFail

ParseValue(s) ==
  IF s = <<>> THEN ParseFail
  ELSE IF Head(s) = Quote THEN ParseString(s)
  ELSE IF Head(s) = "{"
  THEN IF Len(s) >= 2 /\ s[2] = "}"
       THEN [ok |-> TRUE, value |-> EmptyObject, rest |-> SubSeq(s, 3, Len(s))]
       ELSE ParseMembers(Tail(s), <<>>)
  ELSE ParseFail

(* JSON.parse(text): the value, or a SyntaxError.                          *)
JSONValue(text) ==
  LET r == ParseValue(text)
  IN IF r.ok /\ r.rest = <<>> THEN [ok |-> TRUE, value |-> r.value]
     ELSE [ok |-> FALSE, value |-> EmptyObject]

(* A variant that hands back the raw text when it is not JSON.             *)
SafeParseJSONKeepsText(jsonString) ==
  LET r == JSONValue(jsonString) IN IF r.ok THEN r.value ELSE JStr(jsonString)

(* safeParseJSON: try { return JSON.parse(jsonString) } catch { return {} } *)
SafeParseJSON(jsonString) ==
  LET r == JSONValue(jsonString) IN IF r.ok THEN r.value ELSE EmptyObject

(***************************************************************************)
(* The response of the SDK-based generateContent when the first choice     *)
(* carries tool calls: one functionCall part per call, finishReason STOP.  *)
(***************************************************************************)
(* toolCall.function.arguments || '{}'                                     *)
ArgumentsOrEmpty(arguments) == IF arguments = <<>> THEN <<"{", "}">> ELSE arguments

FunctionCallOf(toolCall) ==
  [name |-> toolCall.name, args |-> SafeParseJSON(ArgumentsOrEmpty(toolCall.arguments))]

(* finish_reason === 'stop' ? 'STOP' : 'OTHER'                             *)
FinishReason(finish_reason) == IF finish_reason = "stop" THEN "STOP" ELSE "OTHER"

(* A variant that maps the wire finish_reason also for tool calls.         *)
ToolCallsFinishReasonMapped(finish_reason) == FinishReason(finish_reason)

(* finishReason: 'STOP' of the tool-call response, whatever the wire says. *)
ToolCallsFinishReason(finish_reason) == "STOP"

(* A variant that keeps the choice's prose behind its tool calls.          *)
ToolCallPartsWithText(data) ==
  [i \in 1..Len(data.tool_calls) |-> [functionCall |-> FunctionCallOf(data.tool_calls[i])]]
  \o <<[type |-> "main", text |-> data.content]>>

(* for (const toolCall of choice.message.tool_calls) parts.push(...)       *)
ToolCallParts(data) ==
  [i \in 1..Len(data.tool_calls) |-> [functionCall |-> FunctionCallOf(data.tool_calls[i])]]

ToolCallResponse(data) ==
  [parts |-> ToolCallParts(data),
   finishReason |-> ToolCallsFinishReason(data.finish_reason),
   functionCalls |-> [i \in 1..Len(data.tool_calls) |-> FunctionCallOf(data.tool_calls[i])],
   usage |-> data.usage]

(* choice.message.tool_calls && choice.message.tool_calls.length > 0       *)
HasToolCalls(data) == "tool_calls" \in DOMAIN data /\ data.tool_calls # <<>>

(* The response the SDK-based generateContent resolves with.               *)
SdkResponse(data) ==
  IF HasToolCalls(data) THEN ToolCallResponse(data) ELSE ToSdkResponse(data)

(* The parts the response translation gives for a wire message taken as    *)
(* the message of the first choice.                                        *)
FromWire(message) ==
  SdkResponse([content |-> message.content,
               reasoning_content |-> <<>>, finish_reason |-> "stop", usage |-> FALSE]).parts

(***************************************************************************)
(* The request of the SDK-based generateContent.  A content of the request *)
(* is a Content [role, parts] or a bare string, written [string |-> s]; a  *)
(* part has exactly the fields it carries (text, functionCall,             *)
(* functionResponse, or something the wire cannot express).                *)
(***************************************************************************)
Null == [null |-> TRUE]

(* content.role === 'model' ? 'assistant' : content.role                   *)
WireRole(role) == IF role = "model" THEN "assistant" ELSE role

(* `call_${Date.now()}`                                                     *)
CallId(now) == <<"call_", now>>

(* A variant that writes nothing for a functionResponse part.              *)
SdkPartToWireDropsResponse(role, part, now) ==
  IF "functionCall" \in DOMAIN part
  THEN << [role |-> "assistant", content |-> Null,
           tool_calls |-> << [id |-> CallId(now), type |-> "function",
                              function |-> [name |-> part.functionCall.name,
                                            arguments |-> JSONStringify(part.functionCall.args)]] >>] >>
  ELSE IF "text" \in DOMAIN part /\ part.text # <<>>
  THEN << [role |-> role, content |-> part.text] >>
  ELSE <<>>

(* The body of  for (const part of content.parts) : what one part pushes.  *)
SdkPartToWire(role, part, now) ==
  IF "functionCall" \in DOMAIN part
  THEN << [role |-> "assistant", content |-> Null,
           tool_calls |-> << [id |-> CallId(now), type |-> "function",
                              function |-> [name |-> part.functionCall.name,
                                            arguments |-> JSONStringify(part.functionCall.args)]] >>] >>
  ELSE IF "functionResponse" \in DOMAIN part
  THEN << [role |-> "tool", content |-> JSONStringify(part.functionResponse.response),
           tool_call_id |-> CallId(now)] >>
  ELSE IF "text" \in DOMAIN part /\ part.text # <<>>
  THEN << [role |-> role, content |-> part.text] >>
  ELSE <<>>

(* typeof content !== 'string' && 'role' in content && 'parts' in content  *)
IsContent(content) == "role" \in DOMAIN content /\ "parts" \in DOMAIN content

(* The parts of the request in order, each with the role of its content.   *)
RECURSIVE FlatParts(_)
FlatParts(contents) ==
  IF contents = <<>> THEN <<>>
  ELSE (IF IsContent(Head(contents))
        THEN [i \in 1..Len(Head(contents).parts) |->
                [role |-> Head(contents).role, part |-> Head(contents).parts[i]]]
        ELSE <<>>)
       \o FlatParts(Tail(contents))

(* The two nested loops over contents and parts; times[i] is what          *)
(* Date.now() answers while the i-th part is handled.                      *)
SdkToWire(contents, times) ==
  LET flat == FlatParts(contents)
  IN Concat([i \in 1..Len(flat) |->
               SdkPartToWire(WireRole(flat[i].role), flat[i].part, times[i])])

(* The answers of Date.now() over n parts: the clock does not go back.     *)
Times(n) == { [i \in 1..n |-> IF i <= k THEN 0 ELSE 1] : k \in 0..n }

(* tools.push({type: 'function', function: {name, description, parameters}}) *)
WireTool(func) ==
  [type |-> "function",
   function |-> [name |-> func.name, description |-> func.description,
                 parameters |-> IF "parameters" \in DOMAIN func THEN func.parameters
                                ELSE EmptyObject]]

(* The loops over request.config.tools and tool.functionDeclarations.      *)
RECURSIVE DeclarationsToWire(_)
DeclarationsToWire(toolSets) ==
  IF toolSets = <<>> THEN <<>>
  ELSE (IF "functionDeclarations" \in DOMAIN Head(toolSets)
        THEN [j \in 1..Len(Head(toolSets).functionDeclarations) |->
                WireTool(Head(toolSets).functionDeclarations[j])]
        ELSE <<>>)
       \o DeclarationsToWire(Tail(toolSets))

(* An address is the sequence of its pieces: a scheme and host, "/", and   *)
(* the names between the slashes.                                          *)
(* isDoubao: the base URL names volces (VolcesUrls are the hosts on which  *)
(* includes('volces.com') answers true) and AI_PROVIDER is doubao.         *)
IsDoubao(config) ==
  LET VolcesUrls == {"https://ark.cn-beijing.volces.com"}
  IN /\ \E i \in DOMAIN config.baseUrl : config.baseUrl[i] \in VolcesUrls
     /\ config.provider = "doubao"

(* 'chat/completions'                                                      *)
ChatCompletions == <<"chat", "/", "completions">>

(* A variant that appends the path whatever the base URL holds.            *)
ApiUrlAlwaysAppends(baseUrl) ==
  IF baseUrl # <<>> /\ baseUrl[Len(baseUrl)] = "/"
  THEN baseUrl \o ChatCompletions
  ELSE baseUrl \o <<"/">> \o ChatCompletions

(* apiUrl: the base URL when it includes 'chat/completions', else the      *)
(* base URL with 'chat/completions' after its trailing slash, or with      *)
(* '/chat/completions' when it ends otherwise.                             *)
ApiUrl(baseUrl) ==
  IF Includes(baseUrl, ChatCompletions) THEN baseUrl
  ELSE IF baseUrl # <<>> /\ baseUrl[Len(baseUrl)] = "/"
       THEN baseUrl \o ChatCompletions
       ELSE baseUrl \o <<"/">> \o ChatCompletions

(* this.config.model?.includes('thinking')                                 *)
ThinkingModels == {"Doubao-Seed-1.6-thinking"}

(* x || d  on numbers: 0 and undefined (written 0) give d.  Temperatures   *)
(* are counted in tenths.                                                  *)
OrElse(x, d) == IF x = 0 THEN d ELSE x

(* `${name}: ${description}\nParameters: ${JSON.stringify(parameters)}`     *)
ToolDescription(tool) ==
  tool.function.name \o <<":", " ">> \o tool.function.description
  \o <<"\n", "Parameters: ">> \o JSONStringify(tool.function.parameters)

(* tools.map(...).join('\n\n')                                             *)
RECURSIVE ToolDescriptions(_)
ToolDescriptions(tools) ==
  IF tools = <<>> THEN <<>>
  ELSE ToolDescription(Head(tools))
       \o (IF Len(tools) > 1 THEN <<"\n", "\n">> ELSE <<>>) \o ToolDescriptions(Tail(tools))

(* The synthesized instruction: the fixed text around the descriptions,    *)
(* in the Doubao wording or the standard one.                              *)
SystemContent(tools, isDoubao) ==
  IF isDoubao
  THEN <<"doubao instruction: tools available">> \o ToolDescriptions(tools)
       \o <<"doubao instruction: rules and example">>
  ELSE <<"You are an assistant with access to tools. Available tools:">>
       \o ToolDescriptions(tools)
       \o <<"CRITICAL: you MUST use the tools. Example.">>

SystemMessage(tools, isDoubao) ==
  [role |-> "system", content |-> SystemContent(tools, isDoubao)]

(* A variant that puts the instruction behind the conversation.            *)
WithSystemMessageAppended(messages, tools, isDoubao) ==
  IF tools # <<>> THEN messages \o <<SystemMessage(tools, isDoubao)>> ELSE messages

(* requestOptions.messages = [systemMessage, ...requestOptions.messages]   *)
WithSystemMessage(messages, tools, isDoubao) ==
  IF tools # <<>> THEN <<SystemMessage(tools, isDoubao)>> \o messages ELSE messages

(* requestOptions as handed to this.client.chat.completions.create: the    *)
(* fields tools, tool_choice, response_format and include_reasoning are    *)
(* there only when the code sets them.                                     *)
RequestOptions(config, request, times) ==
  LET tools == DeclarationsToWire(request.tools)
      isDoubao == IsDoubao(config)
      base == [model |-> config.model,
               messages |-> WithSystemMessage(SdkToWire(request.contents, times),
                                              tools, isDoubao),
               temperature |-> OrElse(request.temperature, 7),
               max_tokens |-> OrElse(request.maxOutputTokens, 2048),
               stream |-> FALSE]
      toolFields == IF tools = <<>> THEN base
                    ELSE IF isDoubao
                    THEN base @@ [tools |-> tools, tool_choice |-> "required",
                                  response_format |-> "json_object"]
                    ELSE base @@ [tools |-> tools, tool_choice |-> "auto"]
  IN IF request.includeThoughts /\ config.model \in ThinkingModels
     THEN toolFields @@ [include_reasoning |-> TRUE]
     ELSE toolFields

NoRequest == [model |-> "", messages |-> <<>>]

(***************************************************************************)
(* The request of the fetch-based client: one wire message per content,    *)
(* its text parts joined by newline.                                       *)
(***************************************************************************)
RECURSIVE Join(_, _)
Join(texts, sep) ==
  IF texts = <<>> THEN <<>>
  ELSE IF Len(texts) = 1 THEN Head(texts)
  ELSE Head(texts) \o sep \o Join(Tail(texts), sep)

(* parts.filter(part => 'text' in part).map(part => part.text)             *)
TextsOf(parts) ==
  LET sel == SelectSeq(parts, LAMBDA q : "text" \in DOMAIN q)
  IN [i \in 1..Len(sel) |-> sel[i].text]

(* for (const content of contents) { ...; if (text) messages.push(...) }   *)
RECURSIVE FetchToWire(_)
FetchToWire(contents) ==
  IF contents = <<>> THEN <<>>
  ELSE (IF IsContent(Head(contents)) /\ Join(TextsOf(Head(contents).parts), NL) # <<>>
        THEN << [role |-> WireRole(Head(contents).role),
                 content |-> Join(TextsOf(Head(contents).parts), NL)] >>
        ELSE <<>>)
       \o FetchToWire(Tail(contents))

(* requestBody of generateContent (stream false) and generateContentStream *)
(* (stream true).                                                          *)
FetchRequestBody(config, request, stream) ==
  LET base == [model |-> config.model, messages |-> FetchToWire(request.contents),
               temperature |-> OrElse(request.temperature, 7),
               max_tokens |-> OrElse(request.maxOutputTokens, 2048),
               stream |-> stream]
  IN IF request.includeThoughts /\ config.model \in ThinkingModels
     THEN base @@ [include_reasoning |-> TRUE]
     ELSE base

(***************************************************************************)
(* countTokens.                                                            *)
(***************************************************************************)
(* Math.ceil(n / 4), Math.ceil(n * 0.25)                                   *)
CeilQuarter(n) == (n + 3) \div 4

RECURSIVE SumLen(_)
SumLen(texts) == IF texts = <<>> THEN 0 ELSE Len(Head(texts)) + SumLen(Tail(texts))

(* contents.filter('parts' in content).flatMap(content => content.parts)   *)
(*         .filter('text' in part).map(part => part.text)                  *)
RECURSIVE AllTexts(_)
AllTexts(contents) ==
  IF contents = <<>> THEN <<>>
  ELSE (IF "parts" \in DOMAIN Head(contents) THEN TextsOf(Head(contents).parts) ELSE <<>>)
       \o AllTexts(Tail(contents))

(* countTokens of the fetch-based client: the texts joined by a blank.     *)
FetchCountTokens(contents) == CeilQuarter(Len(Join(AllTexts(contents), <<" ">>)))

(* totalChars of the catch block of the SDK-based countTokens: the length  *)
(* of every bare string and of every text part.                            *)
RECURSIVE TotalChars(_)
TotalChars(contents) ==
  IF contents = <<>> THEN 0
  ELSE (IF "string" \in DOMAIN Head(contents) THEN Len(Head(contents).string)
        ELSE IF IsContent(Head(contents)) THEN SumLen(TextsOf(Head(contents).parts))
        ELSE 0)
       + TotalChars(Tail(contents))

SdkEstimateTokens(contents) == CeilQuarter(TotalChars(contents))

(***************************************************************************)
(* embedContent.                                                           *)
(***************************************************************************)
NotConfiguredPrefix == "Embedding model not configured for provider: "

(* new Error(`Embedding model not configured for provider: ${provider}`)   *)
NotConfigured(config) == <<NotConfiguredPrefix, config.provider>>

NotImplemented == <<"Embedding not yet implemented for OpenAI compatible client">>

NoHttp == [status |-> 0, statusText |-> "", body |-> ""]

NoResponse == [parts |-> <<>>, finishReason |-> "", usage |-> FALSE]

(***************************************************************************)
(* The inputs: what the backend sends on one call.  A record of the event  *)
(* stream is a delta with its content, a payload that is not JSON, the     *)
(* [DONE] sentinel or a comment line; each is followed by an empty line.   *)
(***************************************************************************)
Delta(content) == [k |-> "delta", content |-> content]
Bad == [k |-> "bad", content |-> <<"{", "!">>]
Done == [k |-> "done", content |-> <<>>]
Ping == [k |-> "ping", content |-> <<>>]

EncodeRecord(r) ==
  CASE r.k = "delta" -> DataPrefix \o <<"{">> \o r.content \o <<"}">> \o NL \o NL
    [] r.k = "bad" -> DataPrefix \o r.content \o NL \o NL
    [] r.k = "done" -> DataPrefix \o DoneToken \o NL \o NL
    [] r.k = "ping" -> <<":">> \o NL \o NL

RECURSIVE Encode(_)
Encode(rs) == IF rs = <<>> THEN <<>> ELSE EncodeRecord(Head(rs)) \o Encode(Tail(rs))

RECURSIVE Fragmentations(_, _)
Fragmentations(s, k) ==
  IF k <= 1 \/ Len(s) <= 1 THEN {<<s>>}
  ELSE {<<s>>} \cup
       UNION { { <<SubSeq(s, 1, i)>> \o rest :
                   rest \in Fragmentations(SubSeq(s, i + 1, Len(s)), k - 1) } :
               i \in 1..(Len(s) - 1) }

Deltas(frags) == [i \in 1..Len(frags) |-> Delta(frags[i])]

NoSpan == [has |-> FALSE, pre |-> <<>>, inner |-> <<>>, post |-> <<>>]
Span(pre, inner, post) == [has |-> TRUE, pre |-> pre, inner |-> inner, post |-> post]
FullText(sp) == sp.pre \o OpenTag \o sp.inner \o CloseTag \o sp.post

NoData == [content |-> <<>>, reasoning_content |-> <<>>, finish_reason |-> "", usage |-> FALSE]

(* The client's configuration (getModelConfig) and the caller's request.   *)
Config(provider, baseUrl, model, embeddingModel) ==
  [provider |-> provider, baseUrl |-> baseUrl, model |-> model,
   embeddingModel |-> embeddingModel]

OpenAIConfig ==
  Config("openai", <<"https://api.openai.com", "/", "v1">>, "gpt-4o",
         "text-embedding-3-small")

DoubaoConfig ==
  Config("doubao", <<"https://ark.cn-beijing.volces.com", "/", "api", "/", "v3">>,
         "Doubao-Seed-1.6-thinking", "doubao-embedding-001")

AnthropicConfig ==
  Config("anthropic", <<"https://api.anthropic.com">>, "claude-3-5-sonnet-20241022", "")

(***************************************************************************)
(* The configuration read from the environment.  env holds process.env     *)
(* after loadEnvironment(); a variable that is not set is "" (<<>> for the *)
(* address), which the code's || and !! treat as they treat undefined.     *)
(***************************************************************************)
PROVIDER_CONFIGS ==
  [p \in {"gemini", "doubao", "openai", "anthropic"} |->
     CASE p = "gemini" ->
            [defaultModel |-> "gemini-2.5-pro", defaultBaseUrl |-> <<>>,
             thinkSupportedModels |-> {"gemini-2.5-pro", "gemini-2.5-flash"},
             embeddingModel |-> "gemini-embedding-001"]
       [] p = "doubao" ->
            [defaultModel |-> "doubao-pro-4k", defaultBaseUrl |-> DoubaoConfig.baseUrl,
             thinkSupportedModels |-> {"Doubao-Seed-1.6-thinking", "Doubao-Seed-1.6"},
             embeddingModel |-> "doubao-embedding-001"]
       [] p = "openai" ->
            [defaultModel |-> "gpt-4o", defaultBaseUrl |-> OpenAIConfig.baseUrl,
             thinkSupportedModels |-> {"o1-preview", "o1-mini"},
             embeddingModel |-> "text-embedding-3-small"]
       [] p = "anthropic" ->
            [defaultModel |-> "claude-3-5-sonnet-20241022",
             defaultBaseUrl |-> AnthropicConfig.baseUrl,
             thinkSupportedModels |-> {},
             embeddingModel |-> ""]]

(* process.env[key] || fallback                                            *)
GetEnvVar(value, fallback) == IF value # "" THEN value ELSE fallback

(* What a function hands back when it throws.                              *)
Thrown(message) == [thrown |-> message]

Throws(result) == "thrown" \in DOMAIN result

(* getModelConfig(): the ModelConfig, or the error thrown for a provider   *)
(* PROVIDER_CONFIGS does not hold.                                         *)
ModelConfig(env) ==
  LET provider == GetEnvVar(env.AI_PROVIDER, "gemini")
  IN IF provider \notin DOMAIN PROVIDER_CONFIGS
     THEN Thrown(<<"Unsupported model provider: ", provider>>)
     ELSE LET providerConfig == PROVIDER_CONFIGS[provider]
              model == GetEnvVar(env.AI_MODEL,
                                 GetEnvVar(env.GEMINI_MODEL, providerConfig.defaultModel))
          IN Config(provider,
                    IF env.AI_BASE_URL # <<>> THEN env.AI_BASE_URL
                    ELSE providerConfig.defaultBaseUrl,
                    model,
                    GetEnvVar(env.AI_EMBEDDING_MODEL, providerConfig.embeddingModel))
             @@ [apiKey |-> GetEnvVar(env.AI_API_KEY,
                              GetEnvVar(env.GEMINI_API_KEY,
                                GetEnvVar(env.OPENAI_API_KEY,
                                  GetEnvVar(env.ANTHROPIC_API_KEY, "")))),
                 thinkSupport |-> \/ env.AI_THINK_SUPPORT = "true"
                                  \/ model \in providerConfig.thinkSupportedModels]

(* isThinkingSupported(model, provider) where currentProvider is found:    *)
(* provider "" is the argument left out.  Gemini25Models are the models on *)
(* which startsWith('gemini-2.5') answers true.                            *)
ThinkingSupported(env, model, provider) ==
  LET Gemini25Models == {"gemini-2.5-pro", "gemini-2.5-flash", "gemini-2.5-flash-lite"}
      currentProvider == IF provider # "" THEN provider ELSE ModelConfig(env).provider
      providerConfig == PROVIDER_CONFIGS[currentProvider]
  IN IF env.AI_THINK_SUPPORT = "true" THEN TRUE
     ELSE IF env.AI_THINK_SUPPORT = "false" THEN FALSE
     ELSE \/ model \in providerConfig.thinkSupportedModels
          \/ currentProvider = "gemini" /\ model \in Gemini25Models

(* validateAuthMethod(authMethod): "" for null, else the message.          *)
AuthError(env, authMethod) ==
  LET modelConfig == ModelConfig(env)
  IN IF /\ env.AI_PROVIDER # "" /\ env.AI_API_KEY # ""
        /\ ~Throws(modelConfig) /\ modelConfig.provider # "gemini"
     THEN ""
     ELSE IF authMethod \in {"oauth-personal", "cloud-shell"} THEN ""
     ELSE IF authMethod = "gemini-api-key"
     THEN (IF env.AI_API_KEY = "" /\ env.GEMINI_API_KEY = ""
           THEN "API Key not found. Set AI_API_KEY or GEMINI_API_KEY environment variable and try again (no reload needed if using .env)!"
           ELSE "")
     ELSE IF authMethod = "vertex-ai"
     THEN (IF /\ ~(env.GOOGLE_CLOUD_PROJECT # "" /\ env.GOOGLE_CLOUD_LOCATION # "")
              /\ env.GOOGLE_API_KEY = ""
           THEN "When using Vertex AI, you must specify either: ..."
           ELSE "")
     ELSE "Invalid auth method selected."

(* The Gemini chain of createContentGeneratorConfig, the same in the try   *)
(* block and in the catch block: geminiApiKey is the key either block      *)
(* reads, effective the model getEffectiveModel answers with, "" when it   *)
(* answers with the model it was given.                                    *)
GeminiGeneratorConfig(env, config, geminiApiKey, effective) ==
  IF config.authType \in {"oauth-personal", "cloud-shell"} THEN config
  ELSE IF config.authType = "gemini-api-key" /\ geminiApiKey # ""
  THEN [config EXCEPT !.model = IF effective = "" THEN @ ELSE effective]
       @@ [apiKey |-> geminiApiKey, vertexai |-> FALSE]
  ELSE IF /\ config.authType = "vertex-ai"
          /\ \/ env.GOOGLE_API_KEY # ""
             \/ env.GOOGLE_CLOUD_PROJECT # "" /\ env.GOOGLE_CLOUD_LOCATION # ""
  THEN config @@ [apiKey |-> env.GOOGLE_API_KEY, vertexai |-> TRUE]
  ELSE config

(* The catch block of createContentGeneratorConfig.                        *)
FallbackGeneratorConfig(env, model, authType, effective) ==
  GeminiGeneratorConfig(env,
                        [model |-> GetEnvVar(model, "gemini-2.5-pro"), authType |-> authType,
                         provider |-> "gemini"],
                        env.GEMINI_API_KEY, effective)

(* createContentGeneratorConfig(model, authType): whatever the try block   *)
(* throws, the error of getModelConfig and the error for the missing key   *)
(* alike, is caught, and the catch block answers.                          *)
GeneratorConfig(env, model, authType, effective) ==
  LET modelConfig == ModelConfig(env)
  IN IF Throws(modelConfig)
     THEN FallbackGeneratorConfig(env, model, authType, effective)
     ELSE LET config == [model |-> GetEnvVar(model, modelConfig.model), authType |-> authType,
                         baseUrl |-> modelConfig.baseUrl, provider |-> modelConfig.provider]
          IN IF modelConfig.provider = "gemini"
             THEN GeminiGeneratorConfig(env, config,
                                        GetEnvVar(env.GEMINI_API_KEY, modelConfig.apiKey),
                                        effective)
             ELSE IF modelConfig.apiKey = ""
             THEN FallbackGeneratorConfig(env, model, authType, effective)
             ELSE config @@ [apiKey |-> modelConfig.apiKey]

(* createContentGenerator(config): the generator built, or the error.      *)
Generator(env, config) ==
  IF config.authType \in {"oauth-personal", "cloud-shell"}
  THEN [kind |-> "createCodeAssistContentGenerator", authType |-> config.authType]
  ELSE IF config.provider = "gemini"
  THEN (IF config.authType \in {"gemini-api-key", "vertex-ai"}
        THEN [kind |-> "GoogleGenAI",
              apiKey |-> IF "apiKey" \in DOMAIN config THEN config.apiKey ELSE "",
              vertexai |-> IF "vertexai" \in DOMAIN config THEN config.vertexai ELSE FALSE]
        ELSE Thrown(<<"Error creating contentGenerator: Unsupported authType: ",
                      config.authType>>))
  ELSE LET modelConfig == ModelConfig(env)
       IN IF Throws(modelConfig) THEN modelConfig
          ELSE [kind |-> "OpenAICompatibleClient", config |-> modelConfig]

Request(contents, tools, it) ==
  [contents |-> contents, tools |-> tools, includeThoughts |-> it,
   temperature |-> 0, maxOutputTokens |-> 0]

Text(s) == [text |-> s]

Content(role, parts) == [role |-> role, parts |-> parts]

Hello == <<"h", "e", "l", "l", "o">>

(* {role: user, parts: [text: "hello"]} with no tools.                     *)
HelloRequest(it) == Request(<<Content("user", <<Text(Hello)>>)>>, <<>>, it)

StreamScenario(it, hasBody, records, span) ==
  [op |-> "generateContentStream", includeThoughts |-> it, hasBody |-> hasBody,
   records |-> records, span |-> span, data |-> NoData,
   request |-> HelloRequest(it), config |-> OpenAIConfig]

(* One logical text with one thinking span, cut into fragments everywhere. *)
FragScenarios ==
  LET SpanTexts == { Span(<<"a">>, <<"b">>, <<"c">>) }
  IN UNION { { StreamScenario(TRUE, TRUE, Deltas(fr) \o <<Done>>, sp) :
                 fr \in Fragmentations(FullText(sp), MaxFrags) } : sp \in SpanTexts }

LetMeSpan ==
  Span(<<"L", "e", "t", " ", "m", "e", " ">>, <<"r", "e", "a", "s", "o", "n">>,
       <<" ", "d", "o", "n", "e">>)

(* "Let me <thi", "nking>rea", "son</thinking> done"                       *)
LetMeScenario ==
  LET LetMeFragments ==
        << <<"L", "e", "t", " ", "m", "e", " ", "<", "t", "h", "i">>,
           <<"n", "k", "i", "n", "g", ">", "r", "e", "a">>,
           <<"s", "o", "n", "<", "/", "t", "h", "i", "n", "k", "i", "n", "g", ">",
             " ", "d", "o", "n", "e">> >>
  IN StreamScenario(TRUE, TRUE, Deltas(LetMeFragments) \o <<Done>>, LetMeSpan)

(* Streams that mix deltas with malformed records, comments and [DONE],    *)
(* with and without a closing delimiter, ending with or without [DONE].    *)
MixScenarios ==
  LET MixRecords ==
        { <<Delta(<<"a">>), Bad, Delta(<<"b">>), Done>>,
          <<Delta(<<"a">>), Done, Delta(<<"b">>)>>,
          <<Delta(<<"a">> \o OpenTag \o <<"x">>), Delta(<<"y">>), Done>>,
          <<Delta(OpenTag \o <<"x">>), Bad, Delta(<<"y">> \o CloseTag \o <<"z">>)>>,
          <<Delta(OpenTag), Delta(<<"x">>), Delta(CloseTag), Ping, Delta(<<"z">>)>>,
          <<Delta(<<>>), Delta(<<"a">> \o OpenTag \o <<"x">> \o CloseTag \o <<"z">>)>> }
  IN { StreamScenario(it, TRUE, rs, NoSpan) : it \in BOOLEAN, rs \in MixRecords }
     \cup { StreamScenario(TRUE, FALSE, <<>>, NoSpan) }

StreamScenarios == FragScenarios \cup {LetMeScenario} \cup MixScenarios

(* The bodies a non-streamed call may be answered with.                    *)
UnaryContents ==
  { <<>>, <<"h", "i">>,
    <<"a", " ">> \o OpenTag \o <<" ", "b", " ">> \o CloseTag \o <<" ", "c">>,
    <<"[[", "si", "kao", "]]", "b", "[[", "hui", "da", "]]", "c">>,
    <<"[[", "si", "kao", "]]", "x", "[[", "hui", "da", "]]">> \o OpenTag \o <<"y">>
      \o CloseTag \o <<"z">>,
    <<"*", "*", "si", "kao", "guo", "cheng", "*", "*", "p", "*", "*", "hui", "da", "*", "*",
      "[[", "si", "kao", "]]", "q", "[[", "hui", "da", "]]", "r">>,
    OpenTag \o <<"u">> \o CloseTag \o <<"v">> \o OpenTag \o <<"w">> \o CloseTag }

UnaryScenarios ==
  { [op |-> "generateContent", includeThoughts |-> it, hasBody |-> TRUE,
     records |-> <<>>, span |-> NoSpan,
     data |-> [content |-> t, reasoning_content |-> <<>>, finish_reason |-> fr,
               usage |-> u],
     request |-> HelloRequest(it), config |-> OpenAIConfig] :
      it \in BOOLEAN, t \in UnaryContents, fr \in {"stop", "length"}, u \in BOOLEAN }

(* The completions the SDK-based client may be answered with on a          *)
(* streamed call.                                                          *)
SingleScenarios ==
  { [op |-> "singleResponseStream", includeThoughts |-> TRUE, hasBody |-> TRUE,
     records |-> <<>>, span |-> NoSpan,
     data |-> [content |-> t, reasoning_content |-> r, finish_reason |-> "stop",
               usage |-> TRUE],
     request |-> HelloRequest(TRUE), config |-> OpenAIConfig] :
      t \in {<<>>, <<"a", " ">> \o OpenTag \o <<" ", "b", " ">> \o CloseTag \o <<" ", "c">>},
      r \in {<<>>, <<"r">>} }

(* A call of one of the operations that answer in one step.                *)
OpScenario(op, config, request, data) ==
  [op |-> op, includeThoughts |-> request.includeThoughts, hasBody |-> TRUE,
   records |-> <<>>, span |-> NoSpan, data |-> data,
   request |-> request, config |-> config]

(* embedContent under a provider with an embedding model and under one     *)
(* without.                                                                *)
EmbedScenarios ==
  { OpScenario(op, cfg, HelloRequest(FALSE), NoData) :
      op \in {"embedContent", "sdkEmbedContent"},
      cfg \in {OpenAIConfig, DoubaoConfig, AnthropicConfig} }

(* The contents countTokens is asked about: the same characters spread     *)
(* over one, two and three text parts, over two contents, and in a bare    *)
(* string.                                                                 *)
CountContents ==
  { <<>>,
    <<Content("user", <<Text(<<"a", "b", "c", "d">>)>>)>>,
    <<Content("user", <<Text(<<"a", "b">>), Text(<<"c", "d">>)>>)>>,
    <<Content("user", <<Text(<<"a", "b">>)>>), Content("model", <<Text(<<"c", "d">>)>>)>>,
    <<Content("user", <<Text(<<"a">>), Text(<<"b">>), Text(<<"c">>)>>)>>,
    <<Content("user", <<Text(<<"a", "b", "c", "d", "e">>)>>)>>,
    <<Content("user", <<Text(<<"a", "b", "c">>), [inlineData |-> "png"]>>)>>,
    <<[string |-> <<"a", "b", "c", "d", "e">>], Content("user", <<Text(<<>>)>>)>> }

(* countTokens of both clients; n is usage.prompt_tokens of the answer to  *)
(* the counting call, and an answer without usage has data.usage FALSE.    *)
CountScenarios ==
  { OpScenario("countTokens", OpenAIConfig, Request(cs, <<>>, FALSE), NoData) :
      cs \in CountContents }
  \cup { OpScenario("sdkCountTokens", OpenAIConfig, Request(cs, <<>>, FALSE),
                    [prompt_tokens |-> n, usage |-> TRUE] @@ NoData) :
           cs \in CountContents, n \in {0, 1} }
  \cup { OpScenario("sdkCountTokens", OpenAIConfig, Request(cs, <<>>, FALSE), NoData) :
           cs \in CountContents }

(* JSON values of tool-call arguments and tool responses.                  *)
Member(k, v) == [k |-> <<k>>, v |-> v]

(* A tool call of the wire response: the function's name, its arguments    *)
(* as the backend wrote them, and the value those arguments decode to (the *)
(* empty map when they are no JSON, or missing).                           *)
ToolCall(name, value) ==
  [name |-> <<name>>, arguments |-> JSONStringify(value), decoded |-> value]

MalformedToolCall(name, arguments) ==
  [name |-> <<name>>, arguments |-> arguments, decoded |-> EmptyObject]

(* The lists of tool calls of a response: one call over the values of     *)
(* its arguments, one call with texts JSON.parse rejects (cut short, not   *)
(* JSON at all, trailing text, trailing comma), missing arguments, and     *)
(* several calls.                                                          *)
ToolCallLists ==
  LET ArgsValues ==
        { EmptyObject,
          JObj(<<Member("city", JStr(<<"Oslo">>))>>),
          JObj(<<Member("city", JStr(<<"Oslo">>)), Member("unit", JStr(<<"C">>))>>),
          JObj(<<Member("where", JObj(<<Member("city", JStr(<<>>))>>))>>) }
      MalformedArguments ==
        { <<"{", Quote, "city", Quote, ":">>,
          <<"Oslo">>,
          <<"{", "}", "}">>,
          <<"{", Quote, "city", Quote, ":", Quote, "Oslo", Quote, ",", "}">> }
  IN
  { <<ToolCall("get_weather", v)>> : v \in ArgsValues }
  \cup { <<MalformedToolCall("get_weather", a)>> : a \in MalformedArguments }
  \cup { <<MalformedToolCall("list_files", <<>>)>>,
         <<ToolCall("get_weather", JObj(<<Member("city", JStr(<<"Oslo">>))>>)),
           MalformedToolCall("read_file", <<"{", Quote, "path">>),
           ToolCall("list_files", EmptyObject)>>,
         <<ToolCall("read_file", JObj(<<Member("path", JStr(<<"a">>))>>)),
           ToolCall("read_file", JObj(<<Member("path", JStr(<<"b">>))>>))>> }

(* message.content next to tool calls: null or prose.                      *)
SdkData(content, toolCalls, fr) ==
  [content |-> content, reasoning_content |-> <<>>, finish_reason |-> fr,
   usage |-> TRUE, tool_calls |-> toolCalls]

(* The answers: tool calls of every list; prose or none, a tool call or    *)
(* none, under every finish_reason ("" when the backend sends none); the   *)
(* plain contents.                                                         *)
SdkDatas ==
  { SdkData(<<>>, tcs, "tool_calls") : tcs \in ToolCallLists }
  \cup { SdkData(t, tcs, fr) :
           t \in {<<>>, <<"h", "i">>},
           tcs \in {<<>>, <<ToolCall("get_weather", EmptyObject)>>},
           fr \in {"stop", "tool_calls", "length", ""} }
  \cup { SdkData(t, <<>>, "stop") : t \in UnaryContents }

(* response.choices is empty.                                              *)
NoChoices == [choices |-> <<>>] @@ NoData

(* Conversations: text only, with a tool call and its result, with several *)
(* kinds of part in one content, with parts and contents the wire cannot   *)
(* express.                                                                *)
SdkContents ==
  LET WeatherCall ==
        [functionCall |-> [name |-> <<"get_weather">>,
                           args |-> JObj(<<Member("city", JStr(<<"Oslo">>))>>)]]
      WeatherResult ==
        [functionResponse |-> [name |-> <<"get_weather">>,
                               response |-> JObj(<<Member("temp", JStr(<<"5">>))>>)]]
      ListCall == [functionCall |-> [name |-> <<"list_files">>, args |-> EmptyObject]]
      ListResult ==
        [functionResponse |-> [name |-> <<"list_files">>,
                               response |-> JObj(<<Member("output", JStr(<<"a", "b">>))>>)]]
  IN
  { <<Content("user", <<Text(Hello)>>)>>,
    <<Content("system", <<Text(<<"b", "e">>)>>), Content("user", <<Text(<<"a", "b">>), Text(<<"c", "d">>)>>),
      Content("model", <<Text(<<"o", "k">>)>>)>>,
    <<Content("user", <<Text(<<"w", "?">>)>>), Content("model", <<WeatherCall>>),
      Content("user", <<WeatherResult>>), Content("model", <<Text(<<"5">>)>>)>>,
    <<Content("model", <<Text(<<"a">>), WeatherCall, ListCall, Text(<<"b">>)>>),
      Content("user", <<ListResult, WeatherResult, Text(<<"c">>)>>)>>,
    <<Content("model", <<WeatherCall, WeatherCall>>), Content("user", <<WeatherResult>>)>>,
    <<[string |-> <<"h", "i">>], Content("user", <<[inlineData |-> "png"], Text(<<>>), Text(<<"x">>)>>),
      Content("user", <<>>)>> }

(* Conversations of text parts only: one part or several in a message, a  *)
(* text that holds a thinking span, a text with blanks at its ends, an     *)
(* empty text.                                                             *)
TextContents ==
  { <<Content("user", <<Text(Hello)>>)>>,
    <<Content("system", <<Text(<<"b", "e">>)>>),
      Content("user", <<Text(<<"a", "b">>), Text(<<"c", "d">>)>>),
      Content("model", <<Text(<<"o", "k">>)>>)>>,
    <<Content("user", <<Text(<<" ", "a">> \o NL)>>), Content("model", <<Text(<<"b", " ">>)>>)>>,
    <<Content("user", <<Text(<<"a", " ">> \o OpenTag \o <<" ", "b", " ">> \o CloseTag \o <<" ", "c">>)>>)>>,
    <<Content("user", <<Text(OpenTag \o <<"b">> \o CloseTag)>>), Content("model", <<Text(<<"c">>)>>)>>,
    <<Content("user", <<Text(<<>>)>>), Content("user", <<Text(<<"x">>)>>)>> }

(* generateContent of the fetch-based client over these conversations.     *)
FetchTextScenarios ==
  { [op |-> "generateContent", includeThoughts |-> it, hasBody |-> TRUE,
     records |-> <<>>, span |-> NoSpan,
     data |-> [content |-> <<"h", "i">>, reasoning_content |-> <<>>,
               finish_reason |-> "stop", usage |-> TRUE],
     request |-> Request(cs, <<>>, it), config |-> cfg] :
      it \in BOOLEAN, cs \in TextContents, cfg \in {OpenAIConfig, DoubaoConfig} }

(* generateContent of the fetch-based client under the base URLs a         *)
(* provider is configured with: unset, a host, a host and a version, each  *)
(* as it is, with a trailing slash, with part of the path, with the whole  *)
(* path, and with something behind the whole path.                         *)
UrlScenarios ==
  LET Stems == { <<>>, <<"https://api.openai.com">>, OpenAIConfig.baseUrl,
                 DoubaoConfig.baseUrl }
      Tails == { <<>>, <<"/">>, <<"/", "chat">>, <<"/", "chat", "/">>,
                 <<"/", "completions">>, <<"/", "chat", "/", "completions">>,
                 <<"/", "chat", "/", "completions", "/">>,
                 <<"/", "chat", "/", "completions", "?", "v=1">> }
  IN { [op |-> "generateContent", includeThoughts |-> FALSE, hasBody |-> TRUE,
        records |-> <<>>, span |-> NoSpan,
        data |-> [content |-> <<"h", "i">>, reasoning_content |-> <<>>,
                  finish_reason |-> "stop", usage |-> TRUE],
        request |-> HelloRequest(FALSE),
        config |-> Config("openai", stem \o tail, "gpt-4o", "")] :
         stem \in Stems, tail \in Tails }

(* request.config.tools: none, one declaration, several sets.              *)
ToolSets ==
  LET WeatherDeclaration ==
        [name |-> <<"get_weather">>, description |-> <<"Weather of a city">>,
         parameters |-> JObj(<<Member("type", JStr(<<"object">>))>>)]
      ListDeclaration == [name |-> <<"list_files">>, description |-> <<>>]
  IN
  { <<>>,
    <<[functionDeclarations |-> <<WeatherDeclaration>>]>>,
    <<[functionDeclarations |-> <<WeatherDeclaration, ListDeclaration>>],
      [codeExecution |-> TRUE],
      [functionDeclarations |-> <<ListDeclaration>>]>>,
    <<[codeExecution |-> TRUE]>>,
    <<[functionDeclarations |-> <<>>]>> }

(* generateContent of the SDK-based client: every request against one     *)
(* answer, and every answer to one request.                                *)
SdkScenarios ==
  { OpScenario("sdkGenerateContent", cfg, Request(cs, ts, it), SdkData(<<"h", "i">>, <<>>, "stop")) :
      cfg \in {OpenAIConfig, DoubaoConfig}, cs \in SdkContents, ts \in ToolSets,
      it \in BOOLEAN }
  \cup { OpScenario("sdkGenerateContent", OpenAIConfig, HelloRequest(TRUE), d) :
           d \in SdkDatas \cup {NoChoices} }
  \cup { OpScenario("sdkGenerateContent", DoubaoConfig, HelloRequest(TRUE),
                    [SdkData(t, <<>>, "stop") EXCEPT !.reasoning_content = r]) :
           t \in UnaryContents, r \in {<<"r">>, <<" ", "r", " ">>} }

(* process.env with nothing set, and the variables the scenarios set.      *)
NoEnv ==
  [AI_PROVIDER |-> "", AI_API_KEY |-> "", AI_MODEL |-> "", AI_BASE_URL |-> <<>>,
   AI_THINK_SUPPORT |-> "", AI_EMBEDDING_MODEL |-> "",
   GEMINI_API_KEY |-> "", GEMINI_MODEL |-> "", OPENAI_API_KEY |-> "",
   ANTHROPIC_API_KEY |-> "", GOOGLE_API_KEY |-> "", GOOGLE_CLOUD_PROJECT |-> "",
   GOOGLE_CLOUD_LOCATION |-> ""]

(* AI_PROVIDER: unset, the four providers, and one PROVIDER_CONFIGS does   *)
(* not hold.                                                               *)
ProviderSettings == {"", "gemini", "doubao", "openai", "anthropic", "mistral"}

(* getModelConfig() and isThinkingSupported(model, provider) under every   *)
(* setting of AI_PROVIDER, AI_MODEL and AI_THINK_SUPPORT.                  *)
ThinkScenarios ==
  LET Models == {"gemini-2.5-pro", "gemini-2.5-flash-lite", "Doubao-Seed-1.6", "o1-mini",
                 "gpt-4o"}
      Envs == { [NoEnv EXCEPT !.AI_PROVIDER = p, !.AI_MODEL = m, !.AI_THINK_SUPPORT = t] :
                  p \in ProviderSettings, m \in Models \cup {""},
                  t \in {"", "true", "false", "1"} }
  IN { OpScenario("getModelConfig", AnthropicConfig, HelloRequest(FALSE), [env |-> e]) :
         e \in Envs }
     \cup { OpScenario("isThinkingSupported", AnthropicConfig, HelloRequest(FALSE),
                       [env |-> e, model |-> m, provider |-> p]) :
              e \in Envs, m \in Models, p \in {"", "gemini", "openai"} }

(* The start of a session: validateAuthMethod(authMethod), and when it     *)
(* accepts, createContentGeneratorConfig(undefined, authMethod) and        *)
(* createContentGenerator on its result, under every provider, with and    *)
(* without each key, for every auth method.                                *)
AuthScenarios ==
  LET Envs == { [NoEnv EXCEPT !.AI_PROVIDER = p, !.AI_API_KEY = a, !.GEMINI_API_KEY = g,
                              !.OPENAI_API_KEY = o, !.GOOGLE_API_KEY = k,
                              !.GOOGLE_CLOUD_PROJECT = l, !.GOOGLE_CLOUD_LOCATION = l] :
                  p \in ProviderSettings, a \in {"", "ai-key"}, g \in {"", "gemini-key"},
                  o \in {"", "openai-key"}, k \in {"", "google-key"}, l \in {"", "here"} }
  IN { OpScenario("validateAuthMethod", AnthropicConfig, HelloRequest(FALSE),
                  [env |-> e, authMethod |-> m]) :
         e \in Envs,
         m \in {"oauth-personal", "gemini-api-key", "vertex-ai", "cloud-shell", "none"} }

NewFrame(sc) ==
  [pc |-> "fetch", op |-> sc.op, includeThoughts |-> sc.includeThoughts,
   hasBody |-> sc.hasBody, requests |-> 0, thrown |-> NoError,
   http |-> NoHttp, response |-> NoResponse, pulled |-> FALSE, readIssued |-> FALSE,
   reader |-> "none", acquired |-> 0, releases |-> 0,
   buffer |-> <<>>, lines |-> <<>>, isInThinking |-> FALSE,
   thinkingContent |-> <<>>, mainContent |-> <<>>,
   cont |-> At("start", <<>>), pending |-> 0, emitted |-> <<>>,
   outstanding |-> 0,
   abandoned |-> FALSE, polled |-> FALSE,
   sent |-> NoRequest, url |-> <<>>, totalTokens |-> 0, fallback |-> FALSE,
   result |-> Null, authError |-> "", generatorConfig |-> Null]

(***************************************************************************)
(* The operations.  calls are the calls in flight, scen[c] what the        *)
(* backend answers on call c, net[c] the bytes of the response body the    *)
(* transport has not delivered yet, gen[c] the frame of the call.          *)
(***************************************************************************)
(* A variant in which isInThinking, thinkingContent and buffer are fields  *)
(* of the client, shared by its calls, instead of locals.                  *)
FrameShared(c) ==
  LET o == MinOf(calls)
  IN [gen[c] EXCEPT !.isInThinking = gen[o].isInThinking,
                    !.thinkingContent = gen[o].thinkingContent,
                    !.buffer = gen[o].buffer]

(* The locals of one invocation of createStreamGenerator.                  *)
Frame(c) == gen[c]

(* generateContentStream up to its return: one fetch, the status check,    *)
(* and the generator object handed back unstarted.                         *)
GenerateContentStream(c) ==
  /\ gen[c].pc = "fetch"
  /\ gen[c].op = "generateContentStream"
  /\ \E r \in HttpResponses :
       gen' = [gen EXCEPT ![c] =
                 IF Ok(r)
                 THEN [@ EXCEPT !.requests = @ + 1, !.http = r, !.pc = "suspendedStart",
                                !.url = ApiUrl(scen[c].config.baseUrl),
                                !.sent = FetchRequestBody(scen[c].config, scen[c].request, TRUE)]
                 ELSE [@ EXCEPT !.requests = @ + 1, !.http = r, !.pc = "rejected",
                                !.url = ApiUrl(scen[c].config.baseUrl),
                                !.sent = FetchRequestBody(scen[c].config, scen[c].request, TRUE),
                                !.thrown = HttpError(r)]]
  /\ UNCHANGED <<calls, scen, net>>

(* generateContentStream of config/models.ts: generateContent is awaited   *)
(* (the SDK call resolves or rejects, a rejection is rethrown), and its    *)
(* response is wrapped in a generator that is handed back unstarted.       *)
GenerateContentStreamSingle(c) ==
  /\ gen[c].pc = "fetch"
  /\ gen[c].op = "singleResponseStream"
  /\ \E resolves \in BOOLEAN :
       gen' = [gen EXCEPT ![c] =
                 IF resolves
                 THEN [@ EXCEPT !.requests = @ + 1, !.pc = "suspendedStart",
                                !.response = SdkResponse(scen[c].data)]
                 ELSE [@ EXCEPT !.requests = @ + 1, !.pc = "rejected",
                                !.thrown = <<"APIError">>]]
  /\ UNCHANGED <<calls, scen, net>>

(* generateContent: one fetch, the status check, the body translated.      *)
GenerateContent(c) ==
  /\ gen[c].pc = "fetch"
  /\ gen[c].op = "generateContent"
  /\ \E r \in HttpResponses :
       gen' = [gen EXCEPT ![c] =
                 IF Ok(r)
                 THEN [@ EXCEPT !.requests = @ + 1, !.http = r, !.pc = "returned",
                                !.url = ApiUrl(scen[c].config.baseUrl),
                                !.sent = FetchRequestBody(scen[c].config, scen[c].request, FALSE),
                                !.response = ToResponse(scen[c].data, gen[c].includeThoughts)]
                 ELSE [@ EXCEPT !.requests = @ + 1, !.http = r, !.pc = "rejected",
                                !.url = ApiUrl(scen[c].config.baseUrl),
                                !.sent = FetchRequestBody(scen[c].config, scen[c].request, FALSE),
                                !.thrown = HttpError(r)]]
  /\ UNCHANGED <<calls, scen, net>>

(* The consumer calls next() on a suspended generator: the body runs to    *)
(* its next suspension.                                                    *)
Pull(c) ==
  /\ gen[c].pc \in {"suspendedStart", "suspendedYield"}
  /\ gen' = [gen EXCEPT ![c] =
               Run([Frame(c) EXCEPT !.pending = 1, !.pulled = TRUE])]
  /\ UNCHANGED <<calls, scen, net>>

(* The consumer calls next() while the body is waiting for the transport:  *)
(* the request is queued.                                                  *)
PullQueued(c) ==
  /\ gen[c].pc = "awaitRead"
  /\ gen[c].pending < MaxPending
  /\ gen' = [gen EXCEPT ![c].pending = @ + 1, ![c].pulled = TRUE]
  /\ UNCHANGED <<calls, scen, net>>

(* next() on a finished generator answers done and runs nothing.           *)
PullCompleted(c) ==
  /\ gen[c].pc = "completed"
  /\ ~gen[c].polled
  /\ gen' = [gen EXCEPT ![c].polled = TRUE]
  /\ UNCHANGED <<calls, scen, net>>

(* The lengths of the chunk the transport may deliver next.                *)
ReadSizes(bytes) ==
  {n \in 1..Len(bytes) : n <= MaxRead \/ n = Len(bytes) \/ bytes[n] = "\n"}

(* reader.read() resolves with a chunk.                                    *)
ReadChunk(c) ==
  /\ gen[c].pc = "awaitRead"
  /\ \E n \in ReadSizes(net[c]) :
       /\ gen' = [gen EXCEPT ![c] =
                    Run(OnChunk([Frame(c) EXCEPT !.outstanding = @ - 1],
                                SubSeq(net[c], 1, n)))]
       /\ net' = [net EXCEPT ![c] = SubSeq(@, n + 1, Len(@))]
  /\ UNCHANGED <<calls, scen>>

(* reader.read() resolves with done: the body is exhausted.                *)
ReadDone(c) ==
  /\ gen[c].pc = "awaitRead"
  /\ net[c] = <<>>
  /\ gen' = [gen EXCEPT ![c] = OnReadDone([Frame(c) EXCEPT !.outstanding = @ - 1])]
  /\ UNCHANGED <<calls, scen, net>>

(* reader.read() rejects: the connection broke.                            *)
ReadFails(c) ==
  /\ gen[c].pc = "awaitRead"
  /\ gen' = [gen EXCEPT ![c] =
               Throw([Frame(c) EXCEPT !.outstanding = @ - 1], <<"read failed">>)]
  /\ UNCHANGED <<calls, scen, net>>

(* The consumer abandons the sequence (return(), a break out of for        *)
(* await): a generator suspended at a yield inside the try block runs its  *)
(* finally block, any other just ends.                                     *)
Return(c) ==
  /\ gen[c].pc \in {"suspendedStart", "suspendedYield"}
  /\ gen' = [gen EXCEPT ![c] =
               IF @.pc = "suspendedYield" /\ @.op = "generateContentStream"
               THEN [Finally(@) EXCEPT !.abandoned = TRUE]
               ELSE [@ EXCEPT !.pc = "completed", !.abandoned = TRUE,
                              !.cont = At("end", <<>>)]]
  /\ UNCHANGED <<calls, scen, net>>

(* embedContent of the fetch-based client: the guard on the embedding      *)
(* model, then one fetch and the status check.                             *)
EmbedContent(c) ==
  /\ gen[c].pc = "fetch"
  /\ gen[c].op = "embedContent"
  /\ IF scen[c].config.embeddingModel = ""
     THEN gen' = [gen EXCEPT ![c] =
                    [@ EXCEPT !.pc = "rejected", !.thrown = NotConfigured(scen[c].config)]]
     ELSE \E r \in HttpResponses :
            gen' = [gen EXCEPT ![c] =
                      IF Ok(r)
                      THEN [@ EXCEPT !.requests = @ + 1, !.http = r, !.pc = "returned",
                                     !.sent = [model |-> scen[c].config.embeddingModel,
                                               input |-> scen[c].request.contents]]
                      ELSE [@ EXCEPT !.requests = @ + 1, !.http = r, !.pc = "rejected",
                                     !.sent = [model |-> scen[c].config.embeddingModel,
                                               input |-> scen[c].request.contents],
                                     !.thrown = HttpError(r)]]
  /\ UNCHANGED <<calls, scen, net>>

(* embedContent of the SDK-based client: a throw and nothing else.         *)
SdkEmbedContent(c) ==
  /\ gen[c].pc = "fetch"
  /\ gen[c].op = "sdkEmbedContent"
  /\ gen' = [gen EXCEPT ![c] = [@ EXCEPT !.pc = "rejected", !.thrown = NotImplemented]]
  /\ UNCHANGED <<calls, scen, net>>

(* countTokens of the fetch-based client: an estimate, no request.         *)
CountTokens(c) ==
  /\ gen[c].pc = "fetch"
  /\ gen[c].op = "countTokens"
  /\ gen' = [gen EXCEPT ![c] =
               [@ EXCEPT !.pc = "returned",
                         !.totalTokens = FetchCountTokens(scen[c].request.contents)]]
  /\ UNCHANGED <<calls, scen, net>>

(* countTokens of the SDK-based client: a completion of one token whose    *)
(* usage?.prompt_tokens || 0 is the count, and the estimate when the call  *)
(* fails.                                                                  *)
SdkCountTokens(c) ==
  /\ gen[c].pc = "fetch"
  /\ gen[c].op = "sdkCountTokens"
  /\ \E resolves \in BOOLEAN :
       gen' = [gen EXCEPT ![c] =
                 IF resolves
                 THEN [@ EXCEPT !.requests = @ + 1, !.pc = "returned",
                                !.sent = [model |-> scen[c].config.model,
                                          messages |-> FetchToWire(scen[c].request.contents),
                                          max_tokens |-> 1, temperature |-> 0],
                                !.totalTokens = IF scen[c].data.usage
                                                THEN scen[c].data.prompt_tokens
                                                ELSE 0]
                 ELSE [@ EXCEPT !.requests = @ + 1, !.pc = "returned",
                                !.sent = [model |-> scen[c].config.model,
                                          messages |-> FetchToWire(scen[c].request.contents),
                                          max_tokens |-> 1, temperature |-> 0],
                                !.fallback = TRUE,
                                !.totalTokens = SdkEstimateTokens(scen[c].request.contents)]]
  /\ UNCHANGED <<calls, scen, net>>

(* getModelConfig()                                                        *)
GetModelConfig(c) ==
  /\ gen[c].pc = "fetch"
  /\ gen[c].op = "getModelConfig"
  /\ LET modelConfig == ModelConfig(scen[c].data.env)
     IN gen' = [gen EXCEPT ![c] =
                  IF Throws(modelConfig)
                  THEN [@ EXCEPT !.pc = "rejected", !.thrown = modelConfig.thrown]
                  ELSE [@ EXCEPT !.pc = "returned", !.result = modelConfig]]
  /\ UNCHANGED <<calls, scen, net>>

(* isThinkingSupported(model, provider): without the argument the         *)
(* provider is getModelConfig().provider, and what that call throws is     *)
(* thrown on.                                                              *)
IsThinkingSupported(c) ==
  /\ gen[c].pc = "fetch"
  /\ gen[c].op = "isThinkingSupported"
  /\ LET modelConfig == ModelConfig(scen[c].data.env)
     IN gen' = [gen EXCEPT ![c] =
                  IF scen[c].data.provider = "" /\ Throws(modelConfig)
                  THEN [@ EXCEPT !.pc = "rejected", !.thrown = modelConfig.thrown]
                  ELSE [@ EXCEPT !.pc = "returned",
                                 !.result = ThinkingSupported(scen[c].data.env,
                                                              scen[c].data.model,
                                                              scen[c].data.provider)]]
  /\ UNCHANGED <<calls, scen, net>>

(* handleAuthSelect: validateAuthMethod(authMethod); its message is shown, *)
(* and without one the method is selected.                                 *)
ValidateAuthMethod(c) ==
  /\ gen[c].pc = "fetch"
  /\ gen[c].op = "validateAuthMethod"
  /\ LET error == AuthError(scen[c].data.env, scen[c].data.authMethod)
     IN gen' = [gen EXCEPT ![c] =
                  IF error # ""
                  THEN [@ EXCEPT !.pc = "refused", !.authError = error]
                  ELSE [@ EXCEPT !.pc = "selected"]]
  /\ UNCHANGED <<calls, scen, net>>

(* createContentGeneratorConfig(undefined, authType) for the selected      *)
(* method.                                                                 *)
CreateContentGeneratorConfig(c) ==
  /\ gen[c].pc = "selected"
  /\ \E effective \in {"", "gemini-2.5-flash"} :
       gen' = [gen EXCEPT ![c] =
                 [@ EXCEPT !.pc = "configured",
                           !.generatorConfig =
                              GeneratorConfig(scen[c].data.env, "", scen[c].data.authMethod,
                                              effective)]]
  /\ UNCHANGED <<calls, scen, net>>

(* createContentGenerator(config) on that configuration.                   *)
CreateContentGenerator(c) ==
  /\ gen[c].pc = "configured"
  /\ LET generator == Generator(scen[c].data.env, gen[c].generatorConfig)
     IN gen' = [gen EXCEPT ![c] =
                  IF Throws(generator)
                  THEN [@ EXCEPT !.pc = "rejected", !.thrown = generator.thrown]
                  ELSE [@ EXCEPT !.pc = "returned", !.result = generator]]
  /\ UNCHANGED <<calls, scen, net>>

(* generateContent of the SDK-based client: requestOptions built and sent, *)
(* the answer translated; whatever the SDK throws is thrown on.            *)
SdkGenerateContent(c) ==
  /\ gen[c].pc = "fetch"
  /\ gen[c].op = "sdkGenerateContent"
  /\ \E times \in Times(Len(FlatParts(scen[c].request.contents))), resolves \in BOOLEAN :
       LET options == RequestOptions(scen[c].config, scen[c].request, times)
       IN gen' = [gen EXCEPT ![c] =
                    IF ~resolves
                    THEN [@ EXCEPT !.requests = @ + 1, !.sent = options, !.pc = "rejected",
                                   !.thrown = <<"APIError">>]
                    ELSE IF "choices" \in DOMAIN scen[c].data
                    THEN [@ EXCEPT !.requests = @ + 1, !.sent = options, !.pc = "rejected",
                                   !.thrown = <<"No choices returned from API">>]
                    ELSE [@ EXCEPT !.requests = @ + 1, !.sent = options, !.pc = "returned",
                                   !.response = SdkResponse(scen[c].data)]]
  /\ UNCHANGED <<calls, scen, net>>

InitWith(cs, scenarios) ==
  /\ calls = cs
  /\ scen \in [cs -> scenarios]
  /\ gen = [c \in cs |-> NewFrame(scen[c])]
  /\ net = [c \in cs |-> Encode(scen[c].records)]

Init ==
  InitWith({1}, StreamScenarios \cup UnaryScenarios \cup SingleScenarios
                \cup EmbedScenarios \cup CountScenarios \cup SdkScenarios
                \cup FetchTextScenarios \cup UrlScenarios \cup ThinkScenarios
                \cup AuthScenarios)

Next ==
  \/ \E c \in calls : GenerateContent(c)
  \/ \E c \in calls : GenerateContentStream(c)
  \/ \E c \in calls : GenerateContentStreamSingle(c)
  \/ \E c \in calls : Pull(c)
  \/ \E c \in calls : PullQueued(c)
  \/ \E c \in calls : PullCompleted(c)
  \/ \E c \in calls : ReadChunk(c)
  \/ \E c \in calls : ReadDone(c)
  \/ \E c \in calls : ReadFails(c)
  \/ \E c \in calls : Return(c)
  \/ \E c \in calls : EmbedContent(c)
  \/ \E c \in calls : SdkEmbedContent(c)
  \/ \E c \in calls : CountTokens(c)
  \/ \E c \in calls : SdkCountTokens(c)
  \/ \E c \in calls : SdkGenerateContent(c)
  \/ \E c \in calls : GetModelConfig(c)
  \/ \E c \in calls : IsThinkingSupported(c)
  \/ \E c \in calls : ValidateAuthMethod(c)
  \/ \E c \in calls : CreateContentGeneratorConfig(c)
  \/ \E c \in calls : CreateContentGenerator(c)

Spec == Init /\ [][Next]_vars

(* Two calls in flight on one adapter.                                     *)
IsoScenarios ==
  { StreamScenario(TRUE, TRUE, <<Delta(OpenTag), Delta(<<"x">>)>>, NoSpan),
    StreamScenario(TRUE, TRUE, <<Delta(<<"a">>)>>, NoSpan) }
  \cup { sc \in UnaryScenarios \cup SingleScenarios :
           sc.data.content = <<>> /\ sc.data.reasoning_content = <<>>
           /\ sc.data.finish_reason = "stop" /\ sc.data.usage /\ sc.includeThoughts }
  \cup { sc \in CountScenarios : sc.op = "sdkCountTokens" => (sc.data.usage /\ sc.data.prompt_tokens = 1) }
  \cup { sc \in EmbedScenarios : sc.config = OpenAIConfig }
  \cup { sc \in SdkScenarios : sc.request = HelloRequest(TRUE) /\ sc.data = NoChoices }
  \cup { sc \in ThinkScenarios :
           /\ sc.data.env = [NoEnv EXCEPT !.AI_PROVIDER = "openai"]
           /\ sc.op = "isThinkingSupported" => sc.data.model = "o1-mini" /\ sc.data.provider = "" }
  \cup { sc \in AuthScenarios :
           /\ sc.data.env = [NoEnv EXCEPT !.AI_PROVIDER = "openai", !.AI_API_KEY = "ai-key"]
           /\ sc.data.authMethod = "gemini-api-key" }

InitIso == InitWith({1, 2}, IsoScenarios)

SpecIso == InitIso /\ [][Next]_vars

(* One call whose transport answers every read and whose consumer keeps    *)
(* pulling: an awaited promise that can settle does settle, and a for      *)
(* await loop calls next() again after every value.                        *)
Fairness ==
  /\ WF_vars(GenerateContentStream(1))
  /\ WF_vars(GenerateContentStreamSingle(1))
  /\ WF_vars(Pull(1))
  /\ WF_vars(ReadChunk(1) \/ ReadDone(1))

LiveScenarios ==
  {LetMeScenario} \cup MixScenarios \cup SingleScenarios \cup UnaryScenarios
  \cup EmbedScenarios \cup CountScenarios
  \cup { sc \in SdkScenarios : sc.request = HelloRequest(TRUE) }
  \cup { sc \in ThinkScenarios :
           /\ sc.data.env = [NoEnv EXCEPT !.AI_PROVIDER = "openai"]
           /\ sc.op = "isThinkingSupported" => sc.data.model = "o1-mini" /\ sc.data.provider = "" }
  \cup { sc \in AuthScenarios :
           /\ sc.data.env = [NoEnv EXCEPT !.AI_PROVIDER = "openai", !.AI_API_KEY = "ai-key"]
           /\ sc.data.authMethod = "gemini-api-key" }

InitLive == InitWith({1}, LiveScenarios)

LiveSpec == InitLive /\ [][Next]_vars /\ Fairness

(***************************************************************************)
(* What the properties are stated with.                                    *)
(***************************************************************************)
IsPrefix(a, b) == Len(a) <= Len(b) /\ SubSeq(b, 1, Len(a)) = a

OfType(es, type) == SelectSeq(es, LAMBDA e : e.type = type)

TextOf(es, type) ==
  LET sel == OfType(es, type) IN Concat([i \in 1..Len(sel) |-> sel[i].text])

Emission(type, text) == [type |-> type, text |-> text]

Streamed(c) == gen[c].op = "generateContentStream"

(* The sequence ended by itself: not abandoned, nothing thrown.            *)
Finished(c) ==
  gen[c].pc = "completed" /\ ~gen[c].abandoned /\ gen[c].thrown = NoError

(* What one call yields when its records arrive in a single read and the   *)
(* consumer pulls without pause.                                           *)
SoloEmitted(sc, records) ==
  LET bytes == Encode(records)
      f == [NewFrame(sc) EXCEPT !.pc = "awaitRead", !.reader = "locked",
                                !.acquired = 1, !.pending = Len(bytes) + 1]
  IN Run(OnChunk(f, bytes)).emitted

NotBad(records) == SelectSeq(records, LAMBDA r : r.k # "bad")

RECURSIVE UpToDone(_)
UpToDone(records) ==
  IF records = <<>> \/ Head(records).k = "done" THEN <<>>
  ELSE <<Head(records)>> \o UpToDone(Tail(records))

HasKind(records, k) == \E i \in 1..Len(records) : records[i].k = k

(* The text the deltas of a stream spell.                                   *)
LogicalText(records) ==
  LET ds == SelectSeq(records, LAMBDA r : r.k = "delta")
  IN Concat([i \in 1..Len(ds) |-> ds[i].content])

(***************************************************************************)
(* C1.  Streaming extraction does not depend on fragmentation: when a      *)
(* streamed call whose deltas spell one text with one <thinking> span ends *)
(* by itself, the main emissions concatenate to the text without the span  *)
(* and its delimiters, the thinking emissions to the interior of the span; *)
(* and the fragments "Let me <thi", "nking>rea", "son</thinking> done"     *)
(* give main "Let me ", thinking "reason", main " done".                   *)
(***************************************************************************)
LetMeEmissions ==
  << Emission("main", LetMeSpan.pre), Emission("thinking", LetMeSpan.inner),
     Emission("main", LetMeSpan.post) >>

C1_FragmentationIndependent ==
  \A c \in calls :
    (Streamed(c) /\ Finished(c) /\ scen[c].span.has) =>
      /\ TextOf(gen[c].emitted, "main") = scen[c].span.pre \o scen[c].span.post
      /\ TextOf(gen[c].emitted, "thinking") = scen[c].span.inner
      /\ (scen[c] = LetMeScenario => gen[c].emitted = LetMeEmissions)

(***************************************************************************)
(* C2.  Inside a thinking span nothing is emitted before the closing       *)
(* delimiter: whenever the generator is suspended at a yield that handed   *)
(* over a thinking partial, the closing delimiter has been seen, that is,  *)
(* the mode is OUTSIDE again.                                              *)
(***************************************************************************)
C2_NoEmissionInsideThink ==
  \A c \in calls :
    (gen[c].pc = "suspendedYield" /\ gen[c].emitted[Len(gen[c].emitted)].type = "thinking")
      => ~gen[c].isInThinking

(***************************************************************************)
(* C3.  An unterminated thinking span is discarded: a stream that opens a  *)
(* span and never closes it yields no thinking partial at all, and the     *)
(* decoder itself raises nothing.                                          *)
(***************************************************************************)
Unterminated(c) ==
  /\ gen[c].includeThoughts
  /\ Includes(LogicalText(scen[c].records), OpenTag)
  /\ ~Includes(LogicalText(scen[c].records), CloseTag)

C3_UnterminatedSpanDiscarded ==
  \A c \in calls :
    (Streamed(c) /\ Unterminated(c) /\ gen[c].pc # "rejected") =>
      /\ OfType(gen[c].emitted, "thinking") = <<>>
      /\ gen[c].thrown \in {NoError, <<"read failed">>}

(***************************************************************************)
(* C4.  A record whose payload is not JSON is skipped and changes          *)
(* nothing: at every moment the call has emitted a prefix of what the same *)
(* stream without its malformed records yields, and all of it once the     *)
(* sequence has ended by itself.                                           *)
(***************************************************************************)
C4_MalformedRecordSkipped ==
  \A c \in calls :
    Streamed(c) =>
      LET want == SoloEmitted(scen[c], NotBad(scen[c].records))
      IN /\ IsPrefix(gen[c].emitted, want)
         /\ Finished(c) => gen[c].emitted = want

(* A span opened before the malformed record and closed after it came out  *)
(* whole.                                                                  *)
C4_Witness ==
  \E c \in calls :
    /\ Finished(c)
    /\ HasKind(scen[c].records, "bad")
    /\ gen[c].emitted = <<Emission("thinking", <<"x", "y">>), Emission("main", <<"z">>)>>

(***************************************************************************)
(* C5.  The reader is released on every exit path: once the sequence has   *)
(* ended (end of stream, [DONE], a failed read, the consumer's return) the *)
(* lock taken at the start has been released exactly once, it is held      *)
(* until then, and no read is issued after the end.                        *)
(***************************************************************************)
ReaderReleased(c) ==
  /\ gen[c].pc = "completed" =>
       /\ gen[c].releases = gen[c].acquired
       /\ gen[c].reader # "locked"
       /\ gen[c].outstanding = 0
  /\ (Streamed(c) /\ gen[c].pc \in {"awaitRead", "suspendedYield"}) =>
       /\ gen[c].reader = "locked"
       /\ gen[c].acquired = 1
       /\ gen[c].releases = 0

C5_ReaderReleasedOnEveryExit ==
  /\ [](\A c \in calls : ReaderReleased(c))
  /\ [][\A c \in calls :
          gen[c].pc = "completed" =>
            /\ gen'[c].pc = "completed"
            /\ gen'[c].outstanding = 0
            /\ gen'[c].releases = gen[c].releases]_vars

(* A read failed after a partial response was delivered, and the lock is   *)
(* released.                                                               *)
C5_Witness ==
  \E c \in calls :
    /\ gen[c].pc = "completed"
    /\ gen[c].thrown = <<"read failed">>
    /\ gen[c].emitted # <<>>
    /\ gen[c].releases = 1

(***************************************************************************)
(* C6.  Nothing is produced after [DONE]: a call never emits more than the *)
(* records in front of the first [DONE] record yield, wherever the reads   *)
(* cut the stream.                                                         *)
(***************************************************************************)
C6_NothingAfterDone ==
  \A c \in calls :
    Streamed(c) =>
      IsPrefix(gen[c].emitted, SoloEmitted(scen[c], UpToDone(scen[c].records)))

(* The delta behind [DONE] arrived in the same read as [DONE] and was not  *)
(* emitted.                                                                *)
C6_Witness ==
  \E c \in calls :
    /\ Finished(c)
    /\ scen[c].records = <<Delta(<<"a">>), Done, Delta(<<"b">>)>>
    /\ net[c] = <<>>
    /\ gen[c].emitted = <<Emission("main", <<"a">>)>>

(***************************************************************************)
(* C7.  Back-pressure: a transport read is outstanding only while a pull   *)
(* of the consumer is unanswered, never more than one, none while the      *)
(* generator is suspended at a yield, and none at all before the first     *)
(* pull.                                                                   *)
(***************************************************************************)
C7_BackPressure ==
  \A c \in calls :
    Streamed(c) =>
      /\ gen[c].outstanding \in {0, 1}
      /\ gen[c].outstanding = 1 <=> gen[c].pc = "awaitRead"
      /\ gen[c].pc = "awaitRead" => gen[c].pending >= 1
      /\ gen[c].pc = "suspendedYield" => gen[c].pending = 0
      /\ ~gen[c].pulled => ~gen[c].readIssued

(* Suspended at a yield with lines of the last chunk still to handle and   *)
(* bytes waiting in the transport: the decoder does not read on.           *)
C7_Witness ==
  \E c \in calls :
    /\ gen[c].pc = "suspendedYield"
    /\ gen[c].lines # <<>>
    /\ net[c] # <<>>
    /\ gen[c].outstanding = 0

(***************************************************************************)
(* C8.  Streamed calls are isolated: with two calls in flight, under every *)
(* interleaving of their reads and pulls, each call emits a prefix of what *)
(* it emits alone, and all of it once it has ended by itself; a step of    *)
(* one call changes nothing of the other call's frame or transport.        *)
(***************************************************************************)
EmitsAsAlone(c) ==
  LET want == SoloEmitted(scen[c], scen[c].records)
  IN /\ IsPrefix(gen[c].emitted, want)
     /\ Finished(c) => gen[c].emitted = want

C8_StreamedCallsIsolated ==
  /\ [](\A c \in calls : Streamed(c) => EmitsAsAlone(c))
  /\ [][\A c \in calls : \A d \in calls \ {c} :
          gen'[c] # gen[c] => (gen'[d] = gen[d] /\ net'[d] = net[d])]_vars

(* Call 1 is inside a thinking span with a partial line carried over while *)
(* call 2 has delivered main text.                                         *)
C8_Witness ==
  /\ calls = {1, 2}
  /\ gen[1].isInThinking
  /\ gen[1].buffer # <<>>
  /\ gen[2].pc = "suspendedYield"
  /\ ~gen[2].isInThinking
  /\ gen[2].emitted = <<Emission("main", <<"a">>)>>

(***************************************************************************)
(* C9.  The streamed sequence is finite and not restartable: when every    *)
(* read returns and the consumer keeps pulling, the sequence of a streamed *)
(* call eventually ends, and once ended it yields nothing more.            *)
(***************************************************************************)
Ended(c) == gen[c].pc \in {"completed", "rejected"}

C9_SequenceFinite ==
  /\ gen[1].op \in {"generateContentStream", "singleResponseStream"} => <>Ended(1)
  /\ [][gen[1].pc = "completed" =>
          (gen'[1].pc = "completed" /\ gen'[1].emitted = gen[1].emitted)]_vars

(* The sequence ended by the transport reporting the end of the stream,    *)
(* after it had yielded, and next() was called again.                      *)
C9_Witness ==
  /\ Streamed(1)
  /\ Finished(1)
  /\ ~HasKind(scen[1].records, "done")
  /\ gen[1].emitted # <<>>
  /\ gen[1].polled

(***************************************************************************)
(* C10.  A non-2xx status fails generateContent and generateContentStream  *)
(* at once: after exactly one HTTP request, with nothing returned or       *)
(* yielded, and with an error that carries the status code and the         *)
(* response body.                                                          *)
(***************************************************************************)
Carries(err, s) == \E i \in 1..Len(err) : err[i] = s

C10_HttpErrorCarriesStatusAndBody ==
  \A c \in calls :
    (gen[c].pc = "rejected" /\ gen[c].op \in {"generateContent", "generateContentStream"}) =>
      /\ gen[c].requests = 1
      /\ gen[c].emitted = <<>>
      /\ gen[c].response = NoResponse
      /\ Carries(gen[c].thrown, StatusString(gen[c].http.status))
      /\ Carries(gen[c].thrown, gen[c].http.body)

(***************************************************************************)
(* C11.  embedContent without a configured embedding model fails at once   *)
(* with an explicit "not configured" error: no HTTP request is issued, and *)
(* the error is not the one a non-2xx answer raises.  With an embedding    *)
(* model configured it does not raise the "not configured" error.          *)
(***************************************************************************)
EmbedOps == {"embedContent", "sdkEmbedContent"}

IsNotConfiguredError(err) == err # NoError /\ err[1] = NotConfiguredPrefix

IsHttpError(err) == err # NoError /\ err[1] = "HTTP "

C11_EmbedNotConfiguredFailsFast ==
  \A c \in calls :
    (gen[c].op \in EmbedOps /\ gen[c].pc \in {"returned", "rejected"}) =>
      IF scen[c].config.embeddingModel = ""
      THEN /\ gen[c].pc = "rejected"
           /\ gen[c].requests = 0
           /\ IsNotConfiguredError(gen[c].thrown)
           /\ ~IsHttpError(gen[c].thrown)
      ELSE ~IsNotConfiguredError(gen[c].thrown)

(* The same, of the fetch-based client alone.                              *)
C11_FetchEmbedNotConfiguredFailsFast ==
  \A c \in calls :
    (gen[c].op = "embedContent" /\ gen[c].pc \in {"returned", "rejected"}) =>
      IF scen[c].config.embeddingModel = ""
      THEN /\ gen[c].pc = "rejected"
           /\ gen[c].requests = 0
           /\ IsNotConfiguredError(gen[c].thrown)
           /\ ~IsHttpError(gen[c].thrown)
      ELSE ~IsNotConfiguredError(gen[c].thrown)

(***************************************************************************)
(* C12.  A wire response with n >= 1 tool calls is translated into exactly *)
(* n functionCall parts in the order of the tool calls; the i-th part has  *)
(* the name of the i-th tool call and, as args, the value its arguments    *)
(* text decodes to.  Arguments that are no JSON give the empty map, and    *)
(* the call is still there.                                                *)
(***************************************************************************)
SdkReturned(c) == gen[c].op = "sdkGenerateContent" /\ gen[c].pc = "returned"

WireToolCalls(c) ==
  IF "tool_calls" \in DOMAIN scen[c].data THEN scen[c].data.tool_calls ELSE <<>>

FunctionCallParts(parts) == SelectSeq(parts, LAMBDA q : "functionCall" \in DOMAIN q)

C12_ToolCallsBecomeFunctionCalls ==
  \A c \in calls :
    (SdkReturned(c) /\ Len(WireToolCalls(c)) >= 1) =>
      LET fcs == FunctionCallParts(gen[c].response.parts)
          tcs == WireToolCalls(c)
      IN /\ Len(fcs) = Len(tcs)
         /\ \A i \in 1..Len(tcs) :
              /\ fcs[i].functionCall.name = tcs[i].name
              /\ fcs[i].functionCall.args = tcs[i].decoded

(* Three tool calls answered, the second with arguments cut short: three   *)
(* functionCall parts, the second with the empty map, the first with the   *)
(* decoded object.                                                         *)
C12_Witness ==
  \E c \in calls :
    /\ SdkReturned(c)
    /\ Len(WireToolCalls(c)) = 3
    /\ WireToolCalls(c)[2].arguments = <<"{", Quote, "path">>
    /\ Len(gen[c].response.parts) = 3
    /\ gen[c].response.parts[2].functionCall.args = EmptyObject
    /\ gen[c].response.parts[1].functionCall.args # EmptyObject

(***************************************************************************)
(* C13.  The finish reason of a translated response is STOP whenever the   *)
(* wire response carried tool calls, whatever finish reason the wire       *)
(* gave.  Without tool calls it is STOP exactly when the wire finish       *)
(* reason is "stop", and OTHER for every other value and for none.         *)
(***************************************************************************)
C13_FinishReason ==
  \A c \in calls :
    SdkReturned(c) =>
      IF Len(WireToolCalls(c)) >= 1
      THEN gen[c].response.finishReason = "STOP"
      ELSE /\ gen[c].response.finishReason \in {"STOP", "OTHER"}
           /\ gen[c].response.finishReason = "STOP" <=> scen[c].data.finish_reason = "stop"

(* Tool calls answered with the wire finish reason "length": STOP.         *)
C13_Witness ==
  \E c \in calls :
    /\ SdkReturned(c)
    /\ Len(WireToolCalls(c)) >= 1
    /\ scen[c].data.finish_reason = "length"
    /\ gen[c].response.finishReason = "STOP"

(* No tool calls and no wire finish reason: OTHER.                         *)
C13_WitnessMissing ==
  \E c \in calls :
    /\ SdkReturned(c)
    /\ WireToolCalls(c) = <<>>
    /\ scen[c].data.finish_reason = ""
    /\ gen[c].response.finishReason = "OTHER"

(***************************************************************************)
(* C14.  A wire response with no tool calls and an empty text is           *)
(* translated into a response with zero parts, and without an error.       *)
(***************************************************************************)
EmptyAnswer(c) ==
  /\ gen[c].op \in {"generateContent", "sdkGenerateContent"}
  /\ gen[c].pc \in {"returned", "rejected"}
  /\ gen[c].http.status \in {0, 200}
  /\ gen[c].thrown # <<"APIError">>
  /\ "choices" \notin DOMAIN scen[c].data
  /\ WireToolCalls(c) = <<>>
  /\ scen[c].data.content = <<>>
  /\ scen[c].data.reasoning_content = <<>>

C14_EmptyAnswerHasNoParts ==
  \A c \in calls :
    EmptyAnswer(c) =>
      /\ gen[c].pc = "returned"
      /\ gen[c].thrown = NoError
      /\ gen[c].response.parts = <<>>

(* What holds of it: no error, and no part that carries any text.          *)
C14_EmptyAnswerHasNoText ==
  \A c \in calls :
    EmptyAnswer(c) =>
      /\ gen[c].pc = "returned"
      /\ gen[c].thrown = NoError
      /\ \A i \in 1..Len(gen[c].response.parts) : gen[c].response.parts[i].text = <<>>

(***************************************************************************)
(* C15.  The parts of a translated response are either all functionCall    *)
(* parts, exactly when the wire response had at least one tool call, or    *)
(* there is no functionCall part at all; prose never stands next to a      *)
(* functionCall part, and no part is of more than one kind.                *)
(***************************************************************************)
IsFunctionCallPart(q) == "functionCall" \in DOMAIN q

IsTextPart(q) == "text" \in DOMAIN q

C15_PartsAllCallsOrNone ==
  \A c \in calls :
    SdkReturned(c) =>
      LET parts == gen[c].response.parts
      IN /\ IF Len(WireToolCalls(c)) >= 1
            THEN \A i \in 1..Len(parts) : IsFunctionCallPart(parts[i])
            ELSE \A i \in 1..Len(parts) : ~IsFunctionCallPart(parts[i])
         /\ \A i \in 1..Len(parts) : ~(IsFunctionCallPart(parts[i]) /\ IsTextPart(parts[i]))

(* A wire response with prose and a tool call: the response has the        *)
(* functionCall part and nothing of the prose.                             *)
C15_Witness ==
  \E c \in calls :
    /\ SdkReturned(c)
    /\ Len(WireToolCalls(c)) >= 1
    /\ scen[c].data.content = <<"h", "i">>
    /\ Len(gen[c].response.parts) = Len(WireToolCalls(c))
    /\ IsFunctionCallPart(gen[c].response.parts[1])

(***************************************************************************)
(* C16.  The request translation writes the tool parts one to one and in   *)
(* order: a functionCall part becomes an assistant message whose content   *)
(* is null and whose tool_calls has one entry, with the part's name and    *)
(* the JSON text of its args; a functionResponse part becomes a tool       *)
(* message whose content is the JSON text of its response; tool messages   *)
(* and text messages keep the relative order of the parts.                 *)
(***************************************************************************)
SdkSent(c) == gen[c].op = "sdkGenerateContent" /\ gen[c].requests = 1

(* The wire messages of the conversation: the synthesized instruction,     *)
(* which is there when tools are sent, is not one of them.                 *)
Conversation(c) ==
  IF "tools" \in DOMAIN gen[c].sent THEN Tail(gen[c].sent.messages)
  ELSE gen[c].sent.messages

PartKind(q) ==
  IF "functionCall" \in DOMAIN q THEN "call"
  ELSE IF "functionResponse" \in DOMAIN q THEN "result"
  ELSE IF "text" \in DOMAIN q /\ q.text # <<>> THEN "text"
  ELSE "none"

MessageKind(m) ==
  IF "tool_calls" \in DOMAIN m THEN "call"
  ELSE IF m.role = "tool" THEN "result"
  ELSE "text"

(* The parts of the request in order, over all its contents.               *)
RequestParts(c) ==
  LET cs == SelectSeq(scen[c].request.contents, LAMBDA x : "parts" \in DOMAIN x)
  IN Concat([i \in 1..Len(cs) |-> cs[i].parts])

(* A sequence of kinds with every run of "text" taken as one.              *)
RECURSIVE TextRunsAsOne(_)
TextRunsAsOne(kinds) ==
  IF Len(kinds) <= 1 THEN kinds
  ELSE IF kinds[1] = "text" /\ kinds[2] = "text" THEN TextRunsAsOne(Tail(kinds))
  ELSE <<kinds[1]>> \o TextRunsAsOne(Tail(kinds))

Decodes(text, value) == JSONValue(text) = [ok |-> TRUE, value |-> value]

C16_ToolPartsOneToOne ==
  \A c \in calls :
    SdkSent(c) =>
      LET parts == SelectSeq(RequestParts(c), LAMBDA q : PartKind(q) # "none")
          tools == SelectSeq(parts, LAMBDA q : PartKind(q) # "text")
          msgs == Conversation(c)
          wire == SelectSeq(msgs, LAMBDA m : MessageKind(m) # "text")
      IN /\ Len(wire) = Len(tools)
         /\ \A i \in 1..Len(tools) :
              IF PartKind(tools[i]) = "call"
              THEN /\ "tool_calls" \in DOMAIN wire[i]
                   /\ wire[i].role = "assistant"
                   /\ wire[i].content = Null
                   /\ Len(wire[i].tool_calls) = 1
                   /\ wire[i].tool_calls[1].function.name = tools[i].functionCall.name
                   /\ Decodes(wire[i].tool_calls[1].function.arguments,
                              tools[i].functionCall.args)
              ELSE /\ wire[i].role = "tool"
                   /\ "tool_calls" \notin DOMAIN wire[i]
                   /\ Decodes(wire[i].content, tools[i].functionResponse.response)
         /\ TextRunsAsOne([i \in 1..Len(msgs) |-> MessageKind(msgs[i])])
              = TextRunsAsOne([i \in 1..Len(parts) |-> PartKind(parts[i])])

(* Text, two calls, text, two results, text in one request, sent with      *)
(* tools: the wire has the calls and the results between the texts.        *)
C16_Witness ==
  \E c \in calls :
    /\ SdkSent(c)
    /\ "tools" \in DOMAIN gen[c].sent
    /\ [i \in 1..Len(RequestParts(c)) |-> PartKind(RequestParts(c)[i])]
         = <<"text", "call", "call", "text", "result", "result", "text">>
    /\ [i \in 1..Len(Conversation(c)) |-> MessageKind(Conversation(c)[i])]
         = <<"text", "call", "call", "text", "result", "result", "text">>

(***************************************************************************)
(* C17.  The request translation maps text per message: a message whose    *)
(* parts are text parts gives exactly one wire message, with the role      *)
(* assistant for model and the same role for user and system, and with     *)
(* the text parts joined by newline, in order, as its content.  The one    *)
(* message {role: user, parts: [text "hello"]} with no tools gives the     *)
(* messages [{role: "user", content: "hello"}], with stream false.         *)
(***************************************************************************)
Sent(c) ==
  gen[c].op \in {"generateContent", "sdkGenerateContent"} /\ gen[c].requests = 1

(* A message of text parts, none of them empty.                            *)
IsTextMessage(x) ==
  /\ "role" \in DOMAIN x
  /\ "parts" \in DOMAIN x
  /\ x.parts # <<>>
  /\ \A i \in 1..Len(x.parts) : DOMAIN x.parts[i] = {"text"} /\ x.parts[i].text # <<>>

TextOnly(contents) == \A i \in 1..Len(contents) : IsTextMessage(contents[i])

RECURSIVE NewlineJoined(_)
NewlineJoined(parts) ==
  IF Len(parts) = 1 THEN parts[1].text
  ELSE parts[1].text \o NL \o NewlineJoined(Tail(parts))

ExpectedRole(role) == CASE role = "model" -> "assistant" [] OTHER -> role

OneMessagePerContent(contents) ==
  [i \in 1..Len(contents) |->
     [role |-> ExpectedRole(contents[i].role), content |-> NewlineJoined(contents[i].parts)]]

C17_TextPerMessage ==
  \A c \in calls :
    (Sent(c) /\ TextOnly(scen[c].request.contents)) =>
      /\ Conversation(c) = OneMessagePerContent(scen[c].request.contents)
      /\ gen[c].sent.stream = FALSE

(* The example of the claim, which both clients satisfy.                   *)
C17_HelloExample ==
  \A c \in calls :
    (Sent(c) /\ scen[c].request = HelloRequest(scen[c].request.includeThoughts)) =>
      /\ gen[c].sent.messages = <<[role |-> "user", content |-> <<"h", "e", "l", "l", "o">>]>>
      /\ gen[c].sent.stream = FALSE

(* The same of the fetch-based client alone.                               *)
C17_FetchTextPerMessage ==
  \A c \in calls :
    (Sent(c) /\ gen[c].op = "generateContent" /\ TextOnly(scen[c].request.contents)) =>
      /\ Conversation(c) = OneMessagePerContent(scen[c].request.contents)
      /\ gen[c].sent.stream = FALSE

(***************************************************************************)
(* C19.  The request sent carries a synthesized tool-instruction system    *)
(* message if and only if the flattened list of wire tools is not empty.   *)
(* There is then exactly one, it is the first of the messages, and the     *)
(* translated conversation follows it in its order.  The fields tools and  *)
(* tool_choice are there exactly when the list of tools is not empty.      *)
(***************************************************************************)
(* The request declares at least one function.                             *)
DeclaresTools(request) ==
  \E i \in 1..Len(request.tools) :
    /\ "functionDeclarations" \in DOMAIN request.tools[i]
    /\ request.tools[i].functionDeclarations # <<>>

IsToolInstruction(m) ==
  /\ m.role = "system"
  /\ m.content # Null
  /\ m.content # <<>>
  /\ m.content[1] \in {"doubao instruction: tools available",
                       "You are an assistant with access to tools. Available tools:"}

C19_ToolInstructionFirst ==
  \A c \in calls :
    SdkSent(c) =>
      LET msgs == gen[c].sent.messages
          found == SelectSeq(msgs, IsToolInstruction)
          n == Len(FlatParts(scen[c].request.contents))
      IN IF DeclaresTools(scen[c].request)
         THEN /\ Len(found) = 1
              /\ IsToolInstruction(msgs[1])
              /\ \E times \in Times(n) :
                   Tail(msgs) = SdkToWire(scen[c].request.contents, times)
              /\ {"tools", "tool_choice"} \subseteq DOMAIN gen[c].sent
              /\ gen[c].sent.tools # <<>>
         ELSE /\ found = <<>>
              /\ \E times \in Times(n) :
                   msgs = SdkToWire(scen[c].request.contents, times)
              /\ {"tools", "tool_choice"} \cap DOMAIN gen[c].sent = {}

(* Three declarations in two of three tool sets and a conversation that    *)
(* opens with a system message of its own: the instruction stands before   *)
(* it.                                                                     *)
C19_Witness ==
  \E c \in calls :
    /\ SdkSent(c)
    /\ Len(scen[c].request.tools) = 3
    /\ scen[c].request.contents[1] = Content("system", <<Text(<<"b", "e">>)>>)
    /\ "tools" \in DOMAIN gen[c].sent
    /\ Len(gen[c].sent.tools) = 3
    /\ IsToolInstruction(gen[c].sent.messages[1])
    /\ gen[c].sent.messages[2] = [role |-> "system", content |-> <<"b", "e">>]
    /\ Len(gen[c].sent.messages) = 5

(* Tool sets that declare nothing: no instruction, no tools field.         *)
C19_WitnessNone ==
  \E c \in calls :
    /\ SdkSent(c)
    /\ scen[c].request.tools # <<>>
    /\ ~DeclaresTools(scen[c].request)
    /\ "tools" \notin DOMAIN gen[c].sent
    /\ gen[c].sent.messages # <<>>

(***************************************************************************)
(* C20.  countTokens with the fallback estimator is monotone: of two       *)
(* inputs, the one with no more characters in its text parts gets no       *)
(* larger an estimate, however the characters are spread over parts and    *)
(* messages.                                                               *)
(***************************************************************************)
(* The call answered with an estimate.                                     *)
Estimated(c) ==
  /\ gen[c].pc = "returned"
  /\ \/ gen[c].op = "countTokens"
     \/ gen[c].op = "sdkCountTokens" /\ gen[c].fallback

AllMessages(contents) ==
  \A i \in 1..Len(contents) : DOMAIN contents[i] = {"role", "parts"}

RECURSIVE CharactersOfParts(_)
CharactersOfParts(parts) ==
  IF parts = <<>> THEN 0
  ELSE (IF "text" \in DOMAIN Head(parts) THEN Len(Head(parts).text) ELSE 0)
       + CharactersOfParts(Tail(parts))

RECURSIVE Characters(_)
Characters(contents) ==
  IF contents = <<>> THEN 0
  ELSE CharactersOfParts(Head(contents).parts) + Characters(Tail(contents))

Comparable(a, b) ==
  /\ Estimated(a)
  /\ Estimated(b)
  /\ gen[a].op = gen[b].op
  /\ AllMessages(scen[a].request.contents)
  /\ AllMessages(scen[b].request.contents)
  /\ Characters(scen[a].request.contents) <= Characters(scen[b].request.contents)

C20_EstimateMonotone ==
  \A a, b \in calls : Comparable(a, b) => gen[a].totalTokens <= gen[b].totalTokens

(* The same of the SDK-based client alone.                                 *)
C20_SdkEstimateMonotone ==
  \A a, b \in calls :
    (Comparable(a, b) /\ gen[a].op = "sdkCountTokens") =>
      gen[a].totalTokens <= gen[b].totalTokens

(***************************************************************************)
(* C18.  A list of messages that hold text parts only, translated to the   *)
(* wire and back, is reproduced exactly: no message is dropped, every      *)
(* message keeps its role (model for assistant, user, system), and its     *)
(* text is unchanged character for character.                              *)
(***************************************************************************)
FetchSent(c) == gen[c].op = "generateContent" /\ gen[c].requests = 1

(* Messages of text parts, empty texts among them.                         *)
OnlyTextParts(contents) ==
  \A i \in 1..Len(contents) :
    /\ DOMAIN contents[i] = {"role", "parts"}
    /\ contents[i].parts # <<>>
    /\ \A j \in 1..Len(contents[i].parts) : DOMAIN contents[i].parts[j] = {"text"}

CanonicalRole(role) == CASE role = "assistant" -> "model" [] OTHER -> role

(* A part of the response as a part of a message: a text, or a thought.    *)
CanonicalPart(q) ==
  IF q.type = "main" THEN [text |-> q.text] ELSE [text |-> q.text, thought |-> TRUE]

(* The wire messages of the request, each translated back.                 *)
RoundTrip(c) ==
  LET msgs == gen[c].sent.messages
  IN [i \in 1..Len(msgs) |->
        [role |-> CanonicalRole(msgs[i].role),
         parts |-> [j \in 1..Len(FromWire(msgs[i])) |-> CanonicalPart(FromWire(msgs[i])[j])]]]

HoldsDelimiter(text) ==
  \E i \in 1..Len(ThinkingPatterns) : Includes(text, ThinkingPatterns[i].open)

(* Messages of one text part each, the text not empty and free of the      *)
(* delimiters.                                                             *)
PlainTexts(contents) ==
  /\ OnlyTextParts(contents)
  /\ \A i \in 1..Len(contents) :
       /\ Len(contents[i].parts) = 1
       /\ contents[i].parts[1].text # <<>>
       /\ ~HoldsDelimiter(contents[i].parts[1].text)

SdkCounted(c) == gen[c].op = "sdkCountTokens" /\ gen[c].pc \in {"returned", "rejected"}

(* The usage call was answered, and the answer carries usage.              *)
UsageReported(c) == ~gen[c].fallback /\ scen[c].data.usage

(* ceil(n / 4) over the characters of the text parts and bare strings.     *)
RECURSIVE TextualCharacters(_)
TextualCharacters(contents) ==
  IF contents = <<>> THEN 0
  ELSE (IF "string" \in DOMAIN Head(contents) THEN Len(Head(contents).string)
        ELSE CharactersOfParts(Head(contents).parts))
       + TextualCharacters(Tail(contents))

HeuristicEstimate(contents) ==
  LET n == TextualCharacters(contents)
  IN CHOOSE k \in 0..n : 4 * k >= n /\ 4 * (k - 1) < n

C21_UsageOrEstimate ==
  \A c \in calls :
    SdkCounted(c) =>
      /\ gen[c].pc = "returned"
      /\ gen[c].thrown = NoError
      /\ gen[c].sent.max_tokens = 1
      /\ gen[c].totalTokens =
           IF UsageReported(c) THEN scen[c].data.prompt_tokens
           ELSE HeuristicEstimate(scen[c].request.contents)

(* What holds: the figure when usage is reported, the estimate when the    *)
(* call fails, and no failure handed on.                                   *)
C21_UsageOrEstimateOnFailure ==
  \A c \in calls :
    (SdkCounted(c) /\ (UsageReported(c) \/ gen[c].fallback)) =>
      /\ gen[c].pc = "returned"
      /\ gen[c].thrown = NoError
      /\ gen[c].totalTokens =
           IF UsageReported(c) THEN scen[c].data.prompt_tokens
           ELSE HeuristicEstimate(scen[c].request.contents)

(***************************************************************************)
(* C22.  Whole-response thinking extraction tries the delimiter pairs in   *)
(* their fixed order and uses only the first pair that matches: the        *)
(* interior of that match becomes the thinking text, the match is removed  *)
(* from the text to give the text part, and pairs of lower priority in the *)
(* same text stay in the text part as they are.                            *)
(***************************************************************************)
(* The call returned a response on which the delimiters were scanned.      *)
Scanned(c) ==
  /\ gen[c].pc = "returned"
  /\ \/ gen[c].op = "generateContent" /\ scen[c].includeThoughts
     \/ gen[c].op = "sdkGenerateContent" /\ WireToolCalls(c) = <<>>
  /\ scen[c].data.reasoning_content = <<>>

OccursAt(text, sub, i) ==
  /\ i >= 1
  /\ i + Len(sub) - 1 <= Len(text)
  /\ SubSeq(text, i, i + Len(sub) - 1) = sub

(* The places <<i, j>> of an opening delimiter and of a closing one behind *)
(* it.                                                                     *)
SpansOf(text, pair) ==
  { ij \in (1..Len(text)) \X (1..Len(text)) :
      /\ OccursAt(text, pair.open, ij[1])
      /\ OccursAt(text, pair.close, ij[2])
      /\ ij[2] >= ij[1] + Len(pair.open) }

Pairs ==
  << [open |-> <<"<", "t", "h", "i", "n", "k", "i", "n", "g", ">">>,
      close |-> <<"<", "/", "t", "h", "i", "n", "k", "i", "n", "g", ">">>],
     [open |-> <<"*", "*", "si", "kao", "guo", "cheng", "*", "*">>,
      close |-> <<"*", "*", "hui", "da", "*", "*">>],
     [open |-> <<"[[", "si", "kao", "]]">>, close |-> <<"[[", "hui", "da", "]]">>] >>

Matching(text) == {n \in 1..Len(Pairs) : SpansOf(text, Pairs[n]) # {}}

(* The leftmost opening of the first pair that matches, and the nearest    *)
(* closing behind it: interior, and the text without the match.            *)
FirstMatch(text) ==
  LET pair == Pairs[MinOf(Matching(text))]
      i == MinOf({ij[1] : ij \in SpansOf(text, pair)})
      j == MinOf({ij[2] : ij \in {x \in SpansOf(text, pair) : x[1] = i}})
  IN [interior |-> SubSeq(text, i + Len(pair.open), j - 1),
      rest |-> SubSeq(text, 1, i - 1) \o SubSeq(text, j + Len(pair.close), Len(text))]

C22_FirstPairOnly ==
  \A c \in calls :
    (Scanned(c) /\ Matching(scen[c].data.content) # {}) =>
      /\ TextOf(gen[c].response.parts, "thinking") = FirstMatch(scen[c].data.content).interior
      /\ TextOf(gen[c].response.parts, "main") = FirstMatch(scen[c].data.content).rest

(* What holds: the same of the interior and of the rest with the white     *)
(* space at their ends taken off.                                          *)
C22_FirstPairOnlyTrimmed ==
  \A c \in calls :
    (Scanned(c) /\ Matching(scen[c].data.content) # {}) =>
      /\ TextOf(gen[c].response.parts, "thinking")
           = Trim(FirstMatch(scen[c].data.content).interior)
      /\ TextOf(gen[c].response.parts, "main")
           = Trim(FirstMatch(scen[c].data.content).rest)

(* The second pair and the third in one text: the second is taken, the     *)
(* third stays in the text part.                                           *)
C22_LowerPairStays ==
  \E c \in calls :
    /\ Scanned(c)
    /\ Matching(scen[c].data.content) = {2, 3}
    /\ TextOf(gen[c].response.parts, "thinking") = <<"p">>
    /\ TextOf(gen[c].response.parts, "main")
         = <<"[[", "si", "kao", "]]", "q", "[[", "hui", "da", "]]", "r">>

(***************************************************************************)
(* C23.  When the wire message carries a reasoning_content that is not     *)
(* empty, that field is the thinking text and the delimiters are not       *)
(* scanned: the content is returned as it is, also when it holds a         *)
(* complete delimiter pair.                                                *)
(***************************************************************************)
C23_ReasoningFieldWins ==
  \A c \in calls :
    (SdkReturned(c) /\ WireToolCalls(c) = <<>> /\ scen[c].data.reasoning_content # <<>>) =>
      /\ TextOf(gen[c].response.parts, "thinking") = scen[c].data.reasoning_content
      /\ TextOf(gen[c].response.parts, "main") = scen[c].data.content
      /\ Len(gen[c].response.parts) <= 2

(* A reasoning field with blanks around it and a content with a complete   *)
(* pair and blanks inside: both come back as they were sent.               *)
C23_Witness ==
  \E c \in calls :
    /\ SdkReturned(c)
    /\ scen[c].data.reasoning_content = <<" ", "r", " ">>
    /\ Matching(scen[c].data.content) = {1}
    /\ Len(gen[c].response.parts) = 2
    /\ gen[c].response.parts[1] = [type |-> "thinking", text |-> <<" ", "r", " ">>]
    /\ gen[c].response.parts[2].text = scen[c].data.content

(***************************************************************************)
(* C24  The address a request of the fetch-based client goes to holds the  *)
(* chat-completions path exactly once.  A base URL that holds              *)
(* chat/completions already is used as it is; any other base URL gets      *)
(* chat/completions behind its trailing slash, or /chat/completions when   *)
(* it ends without one, so that one slash stands between the two.          *)
(* Resolving the resolved address again changes nothing.                   *)
(***************************************************************************)
Occurrences(url) == { i \in 1..Len(url) : OccursAt(url, <<"chat", "/", "completions">>, i) }

EndsWithSlash(url) == url # <<>> /\ url[Len(url)] = "/"

C24_PathResolvedOnce ==
  \A c \in calls :
    gen[c].op \in {"generateContent", "generateContentStream"} /\ gen[c].requests = 1 =>
      LET base == scen[c].config.baseUrl
          url == gen[c].url
      IN /\ Cardinality(Occurrences(url)) = 1
         /\ Occurrences(base) # {} => url = base
         /\ Occurrences(base) = {} /\ EndsWithSlash(base) =>
              url = base \o <<"chat", "/", "completions">>
         /\ Occurrences(base) = {} /\ ~EndsWithSlash(base) =>
              url = base \o <<"/", "chat", "/", "completions">>
         /\ ApiUrl(url) = url

(* Requests went out under a base URL holding the path already, under one  *)
(* ending in a slash, and under one ending otherwise.                      *)
C24_Witness ==
  /\ \E c \in calls :
       /\ gen[c].op = "generateContent" /\ gen[c].requests = 1
       /\ Occurrences(scen[c].config.baseUrl) # {}
       /\ Len(scen[c].config.baseUrl) > 3
       /\ gen[c].url = scen[c].config.baseUrl

C24_WitnessSlash ==
  \E c \in calls :
    /\ gen[c].op = "generateContent" /\ gen[c].requests = 1
    /\ Occurrences(scen[c].config.baseUrl) = {}
    /\ EndsWithSlash(scen[c].config.baseUrl)
    /\ Len(gen[c].url) = Len(scen[c].config.baseUrl) + 3

(***************************************************************************)
(* C25  AI_THINK_SUPPORT overrides what the model would give, both ways:   *)
(* with AI_THINK_SUPPORT=true thinking is reported as supported for every  *)
(* provider and model, with AI_THINK_SUPPORT=false as not supported, the   *)
(* models of thinkSupportedModels included; getModelConfig().thinkSupport  *)
(* and isThinkingSupported say the same.                                   *)
(***************************************************************************)
ThinkSetting(c) == scen[c].data.env.AI_THINK_SUPPORT

(* What the call reported: thinkSupport of the configuration, or the       *)
(* answer of isThinkingSupported.                                          *)
ThinkReported(c) ==
  IF gen[c].op = "getModelConfig" THEN gen[c].result.thinkSupport ELSE gen[c].result

C25_ThinkSupportOverrides ==
  \A c \in calls :
    gen[c].op \in {"getModelConfig", "isThinkingSupported"} /\ gen[c].pc = "returned" =>
      /\ ThinkSetting(c) = "true" => ThinkReported(c)
      /\ ThinkSetting(c) = "false" => ~ThinkReported(c)

(* What holds: isThinkingSupported follows the setting both ways, and      *)
(* getModelConfig().thinkSupport follows AI_THINK_SUPPORT=true.            *)
C25_ThinkSupportForcedOn ==
  \A c \in calls :
    gen[c].op \in {"getModelConfig", "isThinkingSupported"} /\ gen[c].pc = "returned" =>
      /\ ThinkSetting(c) = "true" => ThinkReported(c)
      /\ ThinkSetting(c) = "false" /\ gen[c].op = "isThinkingSupported" => ~ThinkReported(c)

(***************************************************************************)
(* C29  createContentGeneratorConfig fails with an "API Key is required    *)
(* for provider" error whenever the configured provider is not Gemini and  *)
(* the environment holds no API key; it then never returns a               *)
(* configuration, in particular not one for another provider.              *)
(***************************************************************************)
NonGeminiProvider(c) == scen[c].data.env.AI_PROVIDER \in {"doubao", "openai", "anthropic"}

NoApiKey(c) ==
  LET env == scen[c].data.env
  IN /\ env.AI_API_KEY = "" /\ env.GEMINI_API_KEY = ""
     /\ env.OPENAI_API_KEY = "" /\ env.ANTHROPIC_API_KEY = ""

(* createContentGeneratorConfig has been called and is over.               *)
ConfigCallOver(c) ==
  gen[c].op = "validateAuthMethod" /\ gen[c].pc \in {"configured", "returned", "rejected"}

C29_MissingKeyFails ==
  \A c \in calls :
    ConfigCallOver(c) /\ NonGeminiProvider(c) /\ NoApiKey(c) =>
      /\ gen[c].generatorConfig = Null
      /\ gen[c].thrown # <<>>
      /\ Head(gen[c].thrown) = "API Key is required for provider: "

(* What the call answers in that case: the configuration of the catch      *)
(* block, for Gemini.                                                      *)
C29_MissingKeyFallsBackToGemini ==
  \A c \in calls :
    ConfigCallOver(c) /\ NonGeminiProvider(c) /\ NoApiKey(c) =>
      /\ gen[c].generatorConfig # Null
      /\ gen[c].generatorConfig.provider = "gemini"
      /\ gen[c].generatorConfig.model = "gemini-2.5-pro"

(***************************************************************************)
(* C30  With AI_PROVIDER naming a provider other than Gemini and           *)
(* AI_API_KEY set, validateAuthMethod accepts every auth method, and for   *)
(* every method so accepted createContentGeneratorConfig followed by       *)
(* createContentGenerator builds the OpenAI-compatible client holding that *)
(* API key, never the code-assist generator or the GoogleGenAI client.     *)
(***************************************************************************)
KeyedProvider(c) ==
  /\ gen[c].op = "validateAuthMethod"
  /\ NonGeminiProvider(c)
  /\ scen[c].data.env.AI_API_KEY # ""

IsOpenAICompatible(c) ==
  /\ gen[c].pc = "returned"
  /\ gen[c].result.kind = "OpenAICompatibleClient"
  /\ gen[c].result.config.apiKey = scen[c].data.env.AI_API_KEY
  /\ gen[c].result.config.provider = scen[c].data.env.AI_PROVIDER

C30_KeyedProviderGetsCompatibleClient ==
  \A c \in calls :
    KeyedProvider(c) =>
      /\ gen[c].pc # "refused"
      /\ gen[c].pc \in {"returned", "rejected"} => IsOpenAICompatible(c)

(* What holds: every method is accepted, and every method but the two that *)
(* sign in with Google gets the OpenAI-compatible client.                  *)
C30_CompatibleClientUnlessGoogleLogin ==
  \A c \in calls :
    KeyedProvider(c) =>
      /\ gen[c].pc # "refused"
      /\ gen[c].pc \in {"returned", "rejected"} =>
           IF scen[c].data.authMethod \in {"oauth-personal", "cloud-shell"}
           THEN gen[c].pc = "returned"
                /\ gen[c].result.kind = "createCodeAssistContentGenerator"
           ELSE IsOpenAICompatible(c)

(***************************************************************************)
(* C26  What is decoded does not depend on how the bytes are cut into      *)
(* reads: however the reads cut the stream, in the middle of a line or of  *)
(* the "data: " prefix too, a call that ends by itself has emitted what    *)
(* the same bytes give in one read; and while the decoder waits for a      *)
(* read, its buffer is the unfinished last line of the bytes read so far.  *)
(***************************************************************************)
(* The bytes the transport has handed over.                                *)
Delivered(c) ==
  LET bytes == Encode(scen[c].records)
  IN SubSeq(bytes, 1, Len(bytes) - Len(net[c]))

(* What follows the last newline of bytes.                                 *)
LastLine(bytes) ==
  LET ends == { i \in 1..Len(bytes) : bytes[i] = "\n" }
      last == IF ends = {} THEN 0 ELSE CHOOSE i \in ends : \A j \in ends : j <= i
  IN SubSeq(bytes, last + 1, Len(bytes))

C26_ReadCutsDoNotMatter ==
  \A c \in calls :
    Streamed(c) =>
      /\ gen[c].pc = "awaitRead" => gen[c].buffer = LastLine(Delivered(c))
      /\ Finished(c) => gen[c].emitted = SoloEmitted(scen[c], scen[c].records)

(* A read ended inside the "data: " prefix of a record, after a partial    *)
(* response had been emitted.                                              *)
C26_Witness ==
  \E c \in calls :
    /\ Streamed(c)
    /\ gen[c].pc = "awaitRead"
    /\ gen[c].emitted # <<>>
    /\ gen[c].buffer \in { SubSeq(DataPrefix, 1, n) : n \in 1..(Len(DataPrefix) - 1) }

(***************************************************************************)
(* C27  With thinking extraction on and the decoder outside a span, a      *)
(* delta that holds the opening delimiter and, behind it, the closing one  *)
(* gives the text before the opening delimiter as main, the interior as    *)
(* one thinking emission and the text behind the closing delimiter as      *)
(* main, and leaves the decoder outside, so that what later deltas bring   *)
(* is main text.                                                           *)
(***************************************************************************)
HoldsTag(record) ==
  record.k = "delta" /\ (Includes(record.content, OpenTag) \/ Includes(record.content, CloseTag))

(* The only delta with a delimiter holds a whole span.                     *)
SpanInOneDelta(records) ==
  \E i \in 1..Len(records) :
    /\ records[i].k = "delta"
    /\ LET open == IndexOf(records[i].content, OpenTag)
       IN /\ open # 0
          /\ Includes(SubSeq(records[i].content, open + Len(OpenTag),
                             Len(records[i].content)), CloseTag)
    /\ \A j \in 1..Len(records) : HoldsTag(records[j]) => j = i

(* The text in front of the span, inside it and behind it, of a text with  *)
(* one span.                                                               *)
SpanOf(text) ==
  LET open == IndexOf(text, OpenTag)
      rest == SubSeq(text, open + Len(OpenTag), Len(text))
      close == IndexOf(rest, CloseTag)
  IN Span(SubSeq(text, 1, open - 1), SubSeq(rest, 1, close - 1),
          SubSeq(rest, close + Len(CloseTag), Len(rest)))

C27_WholeSpanInOneDelta ==
  \A c \in calls :
    ( /\ Streamed(c) /\ Finished(c) /\ gen[c].includeThoughts
      /\ SpanInOneDelta(UpToDone(scen[c].records)) ) =>
      LET span == SpanOf(LogicalText(UpToDone(NotBad(scen[c].records))))
      IN /\ TextOf(gen[c].emitted, "main") = span.pre \o span.post
         /\ OfType(gen[c].emitted, "thinking") = <<Emission("thinking", span.inner)>>
         /\ ~gen[c].isInThinking

(* What such a delta gives: the text before the opening delimiter as main, *)
(* nothing else, and the decoder stays inside the span.                    *)
C27_WholeSpanSwallowed ==
  \A c \in calls :
    ( /\ Streamed(c) /\ Finished(c) /\ gen[c].includeThoughts
      /\ SpanInOneDelta(UpToDone(scen[c].records)) ) =>
      LET span == SpanOf(LogicalText(UpToDone(NotBad(scen[c].records))))
      IN /\ TextOf(gen[c].emitted, "main") = span.pre
         /\ gen[c].isInThinking

(***************************************************************************)
(* C28  Calls and results are paired on the wire: in the messages built    *)
(* for one request, the tool_call_id of every tool message is the id of    *)
(* the tool_calls entry written for the functionCall it answers (the       *)
(* nearest call of its name in front of it), whatever the clock answers    *)
(* while the messages are built.                                           *)
(***************************************************************************)
(* The parts of the request that are calls or results, in order, and the   *)
(* wire messages written for them.                                         *)
ToolParts(c) == SelectSeq(RequestParts(c), LAMBDA q : PartKind(q) \in {"call", "result"})

ToolMessages(c) == SelectSeq(Conversation(c), LAMBDA m : MessageKind(m) # "text")

(* The place of the call the result at place i answers, 0 without one.     *)
AnsweredCall(tools, i) ==
  LET earlier == { j \in 1..(i - 1) :
                     /\ PartKind(tools[j]) = "call"
                     /\ tools[j].functionCall.name = tools[i].functionResponse.name }
  IN IF earlier = {} THEN 0 ELSE CHOOSE j \in earlier : \A k \in earlier : k <= j

C28_ResultsCarryTheIdOfTheirCall ==
  \A c \in calls :
    SdkSent(c) =>
      LET tools == ToolParts(c)
          wire == ToolMessages(c)
      IN \A i \in 1..Len(tools) :
           (PartKind(tools[i]) = "result" /\ AnsweredCall(tools, i) # 0) =>
             wire[i].tool_call_id = wire[AnsweredCall(tools, i)].tool_calls[1].id

(* What holds: every id is call_ followed by a clock value, and the ids    *)
(* follow the clock, the later message never holding the earlier value.    *)
WireId(m) == IF "tool_calls" \in DOMAIN m THEN m.tool_calls[1].id ELSE m.tool_call_id

C28_IdsAreClockValues ==
  \A c \in calls :
    SdkSent(c) =>
      LET wire == ToolMessages(c)
      IN /\ \A i \in 1..Len(wire) : \E now \in {0, 1} : WireId(wire[i]) = CallId(now)
         /\ \A i, j \in 1..Len(wire) : i <= j => WireId(wire[i])[2] <= WireId(wire[j])[2]

====
